---- MODULE Spec2Model ----
(***************************************************************************)
(* huffer: a Huffman coder over fixed-size symbols (src/huffer.cpp), with  *)
(* its bit-stream layer (src/input_bit_stream.h, src/output_bit_stream.h)  *)
(* the bit tool (src/bits.cpp) and the tree printer (src/tree.cpp).        *)
(*                                                                         *)
(* Bytes are integers 0..255, bits are BOOLEAN, a Symbol is a sequence of  *)
(* symbol_size bytes, a file is a sequence of bytes.                       *)
(***************************************************************************)
EXTENDS Integers, Sequences, FiniteSets, TLC

(***************************************************************************)
(* Bounds of the model.                                                    *)
(***************************************************************************)
\* longest input file, in bytes
MaxLen == 5
\* number of distinct byte values input files are drawn from
NumInputBytes == 2
\* longest sequence of put calls of the bit-writer runs
MaxBits == 10
\* number of get calls of the bit-reader runs
MaxGets == 12
\* sbumpc calls of the bit-reader runs that may throw: the first MaxFaultCall
MaxFaultCall == 2
\* largest alphabet and largest frequency of the tree runs
MaxSymbols == 4
MaxFreq == 3
\* forged compressed files: longest tail after the total size, largest total size
MaxForgedLen == 3
MaxForgedTotal == 2
\* longest input file of the runs that print text
MaxTextLen == 3
\* number of successful put calls of the client that uses every public member
MaxApiPuts == 4
\* largest value of SYMBOL_SIZE in the environment of a run
MaxEnvSize == 9

(***************************************************************************)
(* Program constants.                                                      *)
(***************************************************************************)
MaxSymbolSize == 8
TotalSizeBits == 64
SymbolSizeBits == 3
ExitShortMagic == 1
ExitBadMagic == 2
ExitTruncatedTotalSize == 3
ExitTruncatedSymbolSize == 4
ExitBadSymbolSize == 5
ExitTruncatedBody == 6
ExitSuccess == 0
ExitCannotOpen == 42
ExitNoCommand == -1
ExitUnknownCommand == -2
ExitBitsUsage == 1
ExitBadInput == 1
bytes_per_line == 8

\* "huffer1" followed by '\0'
Magic == <<104, 117, 102, 102, 101, 114, 49, 0>>

\* the byte values the input files are made of: 'a', 'b', NUL, 0xff
ByteChoices == <<97, 98, 0, 255>>
InputBytes == {ByteChoices[i] : i \in 1..NumInputBytes}

\* the bytes that follow the total size in a forged compressed file: the low
\* three bits of the first one are symbol_size - 1, the bits after them are
\* read as the tree and the body
ForgedBytes == {0, 8, 16, 32, 255}

RECURSIVE SeqsUpTo(_, _)
SeqsUpTo(S, n) ==
  IF n = 0 THEN {<<>>}
  ELSE LET shorter == SeqsUpTo(S, n - 1)
       IN  shorter \cup {Append(q, x) : q \in {r \in shorter : Len(r) = n - 1}, x \in S}

\* the file of one-byte symbols 1..k where symbol i occurs f[i] times
RECURSIVE Runs(_, _)
Runs(f, k) == IF k = 0 THEN <<>> ELSE Runs(f, k - 1) \o [j \in 1..f[k] |-> k]

\* the input files of the tree runs
TreeInputs == UNION {{Runs(f, k) : f \in [1..k -> 1..MaxFreq]} : k \in 0..MaxSymbols}

\* the input files of the decoder-only runs: the magic, a total size, a tail
ForgedFiles ==
  {Magic \o <<total, 0, 0, 0, 0, 0, 0, 0>> \o tail :
     total \in 1..MaxForgedTotal, tail \in SeqsUpTo(ForgedBytes, MaxForgedLen)}

Take(q, n) == SubSeq(q, 1, n)
Drop(q, n) == SubSeq(q, n + 1, Len(q))

(***************************************************************************)
(* std::byte arithmetic on masks: a mask is 0 or a power of two below 256. *)
(***************************************************************************)
\* (current & mask) != 0
TestMask(current, mask) == mask # 0 /\ (current \div mask) % 2 = 1
\* current |= mask
OrMask(current, mask) == IF mask = 0 \/ TestMask(current, mask) THEN current ELSE current + mask
\* mask <<= 1, on 8 bits
ShiftMask(mask) == (mask * 2) % 256
\* number of bits of the current byte already passed by a mask
MaskIndex(mask) ==
  CASE mask = 1 -> 0 [] mask = 2 -> 1 [] mask = 4 -> 2 [] mask = 8 -> 3
    [] mask = 16 -> 4 [] mask = 32 -> 5 [] mask = 64 -> 6 [] mask = 128 -> 7
    [] OTHER -> 8

(***************************************************************************)
(* std::bitset<n>{value}: bit i is (value >> i) & 1.  Sequences count from *)
(* 1, so bit i is element i + 1.  Values stay below 2^31 here.             *)
(***************************************************************************)
\* value >> k
ShiftRight(value, k) == IF k > 30 THEN 0 ELSE value \div (2 ^ k)

bitset(n, value) == [i \in 1..n |-> ShiftRight(value, i - 1) % 2 = 1]

RECURSIVE SumOfPowers(_)
SumOfPowers(indexes) ==
  IF indexes = {} THEN 0
  ELSE LET i == CHOOSE j \in indexes : TRUE
       IN  2 ^ i + SumOfPowers(indexes \ {i})

\* bitset::to_ullong: the sum of 2^i over the bits i that are set
to_ullong(bits) == SumOfPowers({i - 1 : i \in {j \in 1..Len(bits) : bits[j]}})

(***************************************************************************)
(* OutputBitStream.  sink is the streambuf: the bytes it has accepted and  *)
(* cap, the number of bytes it accepts before sputc reports eof (-1: no    *)
(* limit).                                                                 *)
(***************************************************************************)
OutputBitStream(sink) ==
  [sink |-> sink, current |-> 0, mask |-> 1, bad_bit |-> FALSE]

NewSink(bytes, cap) == [bytes |-> bytes, cap |-> cap]

sputc(sink, byte) ==
  IF sink.cap # -1 /\ Len(sink.bytes) >= sink.cap
    THEN [ok |-> FALSE, sink |-> sink]
    ELSE [ok |-> TRUE, sink |-> [sink EXCEPT !.bytes = Append(@, byte)]]

\* a plausible slip: only a full byte is sent
flush_byte_full_only(w) ==
  IF w.bad_bit THEN w
  ELSE IF w.mask # 0 THEN w
  ELSE LET r == sputc(w.sink, w.current)
       IN  IF ~r.ok THEN [w EXCEPT !.bad_bit = TRUE]
           ELSE [w EXCEPT !.sink = r.sink, !.current = 0, !.mask = 1]

flush_byte(w) ==
  IF w.bad_bit THEN w
  ELSE IF w.mask = 1 THEN w
  ELSE LET r == sputc(w.sink, w.current)
       IN  IF ~r.ok THEN [w EXCEPT !.bad_bit = TRUE]
           ELSE [w EXCEPT !.sink = r.sink, !.current = 0, !.mask = 1]

put(w, bit) ==
  IF w.bad_bit THEN w
  ELSE LET f == IF w.mask = 0 THEN flush_byte(w) ELSE w
       IN  IF f.bad_bit THEN f
           ELSE [f EXCEPT !.current = IF bit THEN OrMask(@, f.mask) ELSE @,
                          !.mask = ShiftMask(f.mask)]

\* operator<<(OutputBitStream&, const std::vector<bool>&) and the bitset one
RECURSIVE put_bits(_, _)
put_bits(w, bits) ==
  IF bits = <<>> \/ w.bad_bit THEN w
  ELSE put_bits(put(w, Head(bits)), Tail(bits))

\* operator<<(OutputBitStream&, char): bit i of the byte is byte & (1 << i)
put_char(w, ch) == put_bits(w, bitset(8, ch))

\* operator<<(OutputBitStream&, const Symbol&)
RECURSIVE put_symbol(_, _)
put_symbol(w, symbol) ==
  IF symbol = <<>> THEN w
  ELSE put_symbol(put_char(w, Head(symbol)), Tail(symbol))

\* number of bits a writer has accepted so far
BitsPut(w) == 8 * Len(w.sink.bytes) + MaskIndex(w.mask)

(***************************************************************************)
(* std::ostream on a sink, and the text the programs print.  Text is the   *)
(* sequence of its character codes.                                        *)
(***************************************************************************)
\* the characters inserted into an ostream go to its sink one after another
\* until the sink refuses one (sputc); nothing more is written after that
ostream_write(sink, chars) ==
  LET room == IF sink.cap = -1 \/ Len(sink.bytes) + Len(chars) <= sink.cap
                THEN Len(chars)
              ELSE IF Len(sink.bytes) >= sink.cap THEN 0
              ELSE sink.cap - Len(sink.bytes)
  IN  [sink EXCEPT !.bytes = @ \o Take(chars, room)]

\* out << n, with std::dec
RECURSIVE Decimal(_)
Decimal(n) == IF n < 10 THEN <<48 + n>> ELSE Decimal(n \div 10) \o <<48 + (n % 10)>>

\* one digit of std::hex: 0-9, a-f
HexDigit(d) == IF d < 10 THEN 48 + d ELSE 87 + d

\* out << std::setw(2) << std::setfill('0') << std::hex << int(c & 0xff)
HexByte(c) == IF c < 16 THEN <<48, HexDigit(c)>> ELSE <<HexDigit(c \div 16), HexDigit(c % 16)>>

\* putc_dubscaped of huffer.cpp: the escapes carry two backslashes
putc_dubscaped(c) ==
  CASE c = 7 -> <<92, 92, 97>>
    [] c = 8 -> <<92, 92, 98>>
    [] c = 12 -> <<92, 92, 102>>
    [] c = 10 -> <<92, 92, 110>>
    [] c = 13 -> <<92, 92, 114>>
    [] c = 9 -> <<92, 92, 116>>
    [] c = 11 -> <<92, 92, 118>>
    [] c = 92 -> <<92, 92, 39>>
    [] c = 39 -> <<39>>
    [] c = 34 -> <<92, 34>>
    [] c >= 32 /\ c <= 126 -> <<c>>
    [] OTHER -> <<92, 92, 120>> \o HexByte(c)

\* putc_escaped of bits.cpp: the escapes carry one backslash
putc_escaped(c) ==
  CASE c = 7 -> <<92, 97>>
    [] c = 8 -> <<92, 98>>
    [] c = 12 -> <<92, 102>>
    [] c = 10 -> <<92, 110>>
    [] c = 13 -> <<92, 114>>
    [] c = 9 -> <<92, 116>>
    [] c = 11 -> <<92, 118>>
    [] c = 92 -> <<92, 39>>
    [] c = 39 -> <<39>>
    [] c = 34 -> <<34>>
    [] c >= 32 /\ c <= 126 -> <<c>>
    [] OTHER -> <<92, 120>> \o HexByte(c)

RECURSIVE dubscaped(_)
dubscaped(chars) ==
  IF chars = <<>> THEN <<>> ELSE putc_dubscaped(Head(chars)) \o dubscaped(Tail(chars))

RECURSIVE hexed(_)
hexed(chars) == IF chars = <<>> THEN <<>> ELSE HexByte(Head(chars)) \o hexed(Tail(chars))

\* TextPrinter: "0b" and the bits of the code word, the last one first
RECURSIVE text_bits(_)
text_bits(code_word) ==
  IF code_word = <<>> THEN <<>>
  ELSE <<IF code_word[Len(code_word)] THEN 49 ELSE 48>>
         \o text_bits(Take(code_word, Len(code_word) - 1))

text(code_word) == <<48, 98>> \o text_bits(code_word)

(***************************************************************************)
(* InputBitStream.  src is the streambuf: its bytes, the number of bytes   *)
(* taken from it, the number of sbumpc calls made on it, and faults, the   *)
(* indexes of the sbumpc calls that throw.  A call that throws or reports  *)
(* the end of the input takes no byte.                                     *)
(***************************************************************************)
NewSource(bytes, faults) == [bytes |-> bytes, pos |-> 0, calls |-> 0, faults |-> faults]

InputBitStream(src) ==
  [src |-> src, current |-> 0, mask |-> 0,
   eof_bit |-> FALSE, fail_bit |-> FALSE, bad_bit |-> FALSE]

\* InputBitStream::operator bool
Good(in) == ~in.fail_bit /\ ~in.bad_bit

\* get, its first part: when the current byte is used up another one is
\* asked of the source
load_byte(in) ==
  IF in.mask # 0 THEN in
  ELSE IF in.src.calls + 1 \in in.src.faults
    THEN [in EXCEPT !.src.calls = @ + 1, !.bad_bit = TRUE, !.fail_bit = TRUE]
  ELSE IF in.src.pos >= Len(in.src.bytes)
    THEN [in EXCEPT !.src.calls = @ + 1, !.eof_bit = TRUE, !.fail_bit = TRUE]
  ELSE [in EXCEPT !.current = in.src.bytes[in.src.pos + 1] % 256,
                  !.src.pos = @ + 1, !.src.calls = @ + 1, !.mask = 1]

\* get, its second part: the bit under the mask goes to the caller, unless
\* get returned early, with the mask still 0
take_bit(loaded, bit) ==
  IF loaded.mask = 0 THEN [in |-> loaded, bit |-> bit]
  ELSE [in |-> [loaded EXCEPT !.mask = ShiftMask(@)],
        bit |-> TestMask(loaded.current, loaded.mask)]

\* a plausible slip: most-significant bit first
get_msb_first(in, bit) ==
  LET loaded == load_byte(in)
  IN  IF loaded.mask = 0 THEN [in |-> loaded, bit |-> bit]
      ELSE [in |-> [loaded EXCEPT !.mask = ShiftMask(@)],
            bit |-> TestMask(loaded.current, 128 \div loaded.mask)]

\* get returns the stream and the caller's bit variable
get(in, bit) == take_bit(load_byte(in), bit)

\* operator>>(InputBitStream&, std::bitset<n>&): the bits not read stay as
\* they were
RECURSIVE get_bitset(_, _, _)
get_bitset(in, bits, i) ==
  IF i > Len(bits) THEN [in |-> in, bits |-> bits]
  ELSE LET g == get(in, FALSE)
       IN  IF ~Good(g.in) THEN [in |-> g.in, bits |-> bits]
           ELSE get_bitset(g.in, [bits EXCEPT ![i] = g.bit], i + 1)

\* operator>>(InputBitStream&, char&): eight bits, the first one read is
\* bit 0 of the byte; the byte is assigned only when all eight were read
get_char(in, ch) ==
  LET g == get_bitset(in, [i \in 1..8 |-> FALSE], 1)
  IN  [in |-> g.in, ch |-> IF Good(g.in) THEN to_ullong(g.bits) ELSE ch]

\* operator>>(InputBitStream&, Symbol&): every byte of the symbol is asked
\* for, also after a failure
RECURSIVE get_symbol(_, _, _)
get_symbol(in, symbol, n) ==
  IF n = 0 THEN [in |-> in, symbol |-> symbol]
  ELSE LET g == get_char(in, 0)
       IN  get_symbol(g.in, Append(symbol, g.ch), n - 1)

(***************************************************************************)
(* Symbols and read_symbols.  info maps each symbol seen to its frequency  *)
(* and code word.                                                          *)
(***************************************************************************)
NoInfo == [symbol \in {} |-> [frequency |-> 0, code_word |-> <<>>]]

\* a plausible slip: a symbol seen again is not counted again
CountSymbol_no_increment(info, buffer) ==
  [symbol \in DOMAIN info \cup {buffer} |->
     IF symbol = buffer
       THEN IF buffer \in DOMAIN info
              THEN info[buffer]
              ELSE [frequency |-> 1, code_word |-> <<>>]
       ELSE info[symbol]]

\* ++symbols.info[buffer].frequency
CountSymbol(info, buffer) ==
  [symbol \in DOMAIN info \cup {buffer} |->
     IF symbol = buffer
       THEN IF buffer \in DOMAIN info
              THEN [info[buffer] EXCEPT !.frequency = @ + 1]
              ELSE [frequency |-> 1, code_word |-> <<>>]
       ELSE info[symbol]]

\* symbols.info[symbol].code_word = code_word
SetCodeWord(info, symbol, code_word) ==
  [sym \in DOMAIN info \cup {symbol} |->
     IF sym = symbol
       THEN [frequency |-> IF symbol \in DOMAIN info THEN info[symbol].frequency ELSE 0,
             code_word |-> code_word]
       ELSE info[sym]]

RECURSIVE read_symbols_loop(_, _, _)
read_symbols_loop(rest, symbols, size) ==
  LET count == IF Len(rest) < size THEN Len(rest) ELSE size
      buffer == Take(rest, count)
      counted == [symbols EXCEPT !.total_size = @ + count]
  IN  IF count < size
        THEN [counted EXCEPT !.extra = buffer]
        ELSE read_symbols_loop(Drop(rest, count),
                               [counted EXCEPT !.info = CountSymbol(@, buffer)], size)

read_symbols(in, size) ==
  read_symbols_loop(in, [info |-> NoInfo, extra |-> <<>>, total_size |-> 0], size)

(***************************************************************************)
(* Nodes of the encoder's tree are values: a leaf, an internal node with   *)
(* its two subtrees, or the null tree.                                     *)
(***************************************************************************)
NullTree == [type |-> "null"]
Leaf(symbol, weight) == [type |-> "leaf", weight |-> weight, leaf |-> symbol]
\* a plausible slip: the weight of the left subtree only
Internal_left_weight(id, left, right) ==
  [type |-> "internal", weight |-> left.weight,
   id |-> id, left |-> left, right |-> right]

Internal(id, left, right) ==
  [type |-> "internal", weight |-> left.weight + right.weight,
   id |-> id, left |-> left, right |-> right]

\* build_tree, first loop: one leaf per symbol of the map
build_tree_leaves(symbols) ==
  {Leaf(symbol, symbols.info[symbol].frequency) : symbol \in DOMAIN symbols.info}

\* a plausible slip: the comparator is not reversed, the heap hands out a
\* heaviest node
IsTop_heaviest(heap, node) == node \in heap /\ \A other \in heap : ~(node.weight < other.weight)

\* heap.top(): a node no other node of the heap is lighter than
IsTop(heap, node) == node \in heap /\ \A other \in heap : ~(node.weight > other.weight)

\* build_tree, one round of the second loop, for the two nodes popped
build_tree_combine(heap, next_node_id, left, right) ==
  (heap \ {left, right}) \cup {Internal(next_node_id, left, right)}

\* build_tree, the return
build_tree_result(heap) ==
  IF heap = {} THEN NullTree ELSE CHOOSE node \in heap : TRUE

(***************************************************************************)
(* build_code_words                                                        *)
(***************************************************************************)
\* a plausible slip: the bits of the two children are exchanged
RECURSIVE build_code_words_loop_swapped(_, _)
RECURSIVE build_code_words_loop(_, _)
build_code_words_loop_swapped(info, ancestors) ==
  IF ancestors = <<>> THEN info
  ELSE LET top == ancestors[Len(ancestors)]
           popped == Take(ancestors, Len(ancestors) - 1)
           left == top.node.left
           right == top.node.right
           left_prefix == Append(top.prefix, TRUE)
           right_prefix == Append(top.prefix, FALSE)
           info1 == IF left.type = "leaf"
                      THEN SetCodeWord(info, left.leaf, left_prefix) ELSE info
           stack1 == IF left.type = "leaf" THEN popped
                     ELSE Append(popped, [node |-> left, prefix |-> left_prefix])
           info2 == IF right.type = "leaf"
                      THEN SetCodeWord(info1, right.leaf, right_prefix) ELSE info1
           stack2 == IF right.type = "leaf" THEN stack1
                     ELSE Append(stack1, [node |-> right, prefix |-> right_prefix])
       IN  build_code_words_loop_swapped(info2, stack2)

build_code_words_loop(info, ancestors) ==
  IF ancestors = <<>> THEN info
  ELSE LET top == ancestors[Len(ancestors)]
           popped == Take(ancestors, Len(ancestors) - 1)
           left == top.node.left
           right == top.node.right
           left_prefix == Append(top.prefix, FALSE)
           right_prefix == Append(top.prefix, TRUE)
           info1 == IF left.type = "leaf"
                      THEN SetCodeWord(info, left.leaf, left_prefix) ELSE info
           stack1 == IF left.type = "leaf" THEN popped
                     ELSE Append(popped, [node |-> left, prefix |-> left_prefix])
           info2 == IF right.type = "leaf"
                      THEN SetCodeWord(info1, right.leaf, right_prefix) ELSE info1
           stack2 == IF right.type = "leaf" THEN stack1
                     ELSE Append(stack1, [node |-> right, prefix |-> right_prefix])
       IN  build_code_words_loop(info2, stack2)

\* a plausible slip: the lone symbol gets the path to the root, the empty word
build_code_words_empty_word(info, root) ==
  IF root.type = "null" THEN info
  ELSE IF root.type = "leaf" THEN SetCodeWord(info, root.leaf, <<>>)
  ELSE build_code_words_loop(info, <<[node |-> root, prefix |-> <<>>]>>)

build_code_words(info, root) ==
  IF root.type = "null" THEN info
  ELSE IF root.type = "leaf" THEN SetCodeWord(info, root.leaf, <<FALSE>>)
  ELSE build_code_words_loop(info, <<[node |-> root, prefix |-> <<>>]>>)

(***************************************************************************)
(* write_tree                                                              *)
(***************************************************************************)
\* a plausible slip: the children are pushed left first, so the right
\* subtree is written first
RECURSIVE write_tree_loop_right_first(_, _)
RECURSIVE write_tree_loop(_, _)
write_tree_loop_right_first(out, stack) ==
  IF stack = <<>> THEN out
  ELSE LET node == stack[Len(stack)]
           popped == Take(stack, Len(stack) - 1)
       IN  IF node.type = "leaf"
             THEN write_tree_loop_right_first(put_symbol(put(out, TRUE), node.leaf), popped)
             ELSE write_tree_loop_right_first(put(out, FALSE),
                                  Append(Append(popped, node.left), node.right))

write_tree_loop(out, stack) ==
  IF stack = <<>> THEN out
  ELSE LET node == stack[Len(stack)]
           popped == Take(stack, Len(stack) - 1)
       IN  IF node.type = "leaf"
             THEN write_tree_loop(put_symbol(put(out, TRUE), node.leaf), popped)
             ELSE write_tree_loop(put(out, FALSE),
                                  Append(Append(popped, node.right), node.left))

\* a plausible slip: a node is written for the null tree as well
write_tree_null_node(out, root) ==
  IF root.type = "null" THEN put(out, TRUE)
  ELSE write_tree_loop(out, <<root>>)

write_tree(out, root) ==
  IF root.type = "null" THEN out
  ELSE write_tree_loop(out, <<root>>)

(***************************************************************************)
(* graph_tree: the tree as a graph description, one line per node and per  *)
(* edge.                                                                   *)
(***************************************************************************)
\* NamePrinter: leaf_0x and the symbol in hexadecimal, internal_ and the id
name(node) ==
  IF node.type = "leaf"
    THEN <<108, 101, 97, 102, 95, 48, 120>> \o hexed(node.leaf)
    ELSE <<105, 110, 116, 101, 114, 110, 97, 108, 95>> \o Decimal(node.id)

\* LabelQuotedPrinter: "\"symbol\" (weight)" for a leaf, "(weight)" otherwise
label_quoted(node) ==
  IF node.type = "leaf"
    THEN <<34, 92, 34>> \o dubscaped(node.leaf) \o <<92, 34, 32, 40>>
           \o Decimal(node.weight) \o <<41, 34>>
    ELSE <<34, 40>> \o Decimal(node.weight) \o <<41, 34>>

\* the line of a node: two blanks, the name, [label=...];
node_line(node) ==
  <<32, 32>> \o name(node) \o <<32, 91, 108, 97, 98, 101, 108, 61>>
    \o label_quoted(node) \o <<93, 59, 10>>

\* the line of an edge: two blanks, parent -> child [label="0"]; or "1"
edge_line(parent, child, digit) ==
  <<32, 32>> \o name(parent) \o <<32, 45, 62, 32>> \o name(child)
    \o <<32, 91, 108, 97, 98, 101, 108, 61, 34, digit, 34, 93, 59, 10>>

\* the loop of graph_tree: the left child is pushed first, so the right
\* subtree is printed first
RECURSIVE graph_tree_loop(_, _)
graph_tree_loop(chars, stack) ==
  IF stack = <<>> THEN chars
  ELSE LET node == stack[Len(stack)]
           popped == Take(stack, Len(stack) - 1)
       IN  IF node.type = "leaf"
             THEN graph_tree_loop(chars \o node_line(node), popped)
             ELSE graph_tree_loop(chars \o node_line(node)
                                    \o edge_line(node, node.left, 48)
                                    \o edge_line(node, node.right, 49),
                                  Append(Append(popped, node.left), node.right))

\* the characters graph_tree prints for a tree that is not null
graph_tree(root, extra) ==
  <<100, 105, 103, 114, 97, 112, 104, 32, 123, 10>>
    \o (IF extra = <<>> THEN <<>>
        ELSE <<32, 32, 101, 120, 116, 114, 97, 32, 91, 108, 97, 98, 101, 108, 61, 34, 92, 34>>
               \o dubscaped(extra)
               \o <<92, 34, 32, 40, 101, 120, 116, 114, 97, 41, 34, 93, 59, 10>>)
    \o graph_tree_loop(<<>>, <<root>>)
    \o <<125, 10>>

(***************************************************************************)
(* main_encode, by parts                                                   *)
(***************************************************************************)
\* a plausible slip: the size is stored as it is, not less one
write_header_plain_size(out, total_size, size) ==
  put_bits(put_bits(OutputBitStream(ostream_write(out, Magic)),
                    bitset(TotalSizeBits, total_size)),
           bitset(SymbolSizeBits, size))

\* out << "huffer1" << '\0', then the two bitsets through a new bit writer
write_header(out, total_size, size) ==
  put_bits(put_bits(OutputBitStream(ostream_write(out, Magic)),
                    bitset(TotalSizeBits, total_size)),
           bitset(SymbolSizeBits, size - 1))

\* the second pass over the input
RECURSIVE write_body(_, _, _, _)
write_body(bits, rest, info, size) ==
  LET count == IF Len(rest) < size THEN Len(rest) ELSE size
      buffer == Take(rest, count)
  IN  IF count < size
        THEN put_symbol(bits, buffer)
        ELSE write_body(put_bits(bits, IF buffer \in DOMAIN info
                                         THEN info[buffer].code_word ELSE <<>>),
                        Drop(rest, count), info, size)

(***************************************************************************)
(* The decoder's tree lives in a store of nodes: nodes[p] is the node at   *)
(* address p, and 0 is the null pointer.                                   *)
(***************************************************************************)
LeafNode(symbol) ==
  [type |-> "leaf", leaf |-> symbol, id |-> 0, left |-> 0, right |-> 0]
InternalNode(id) ==
  [type |-> "internal", leaf |-> <<>>, id |-> id, left |-> 0, right |-> 0]

\* the discarding of a tree by its root handle; a null child of an internal
\* node is pushed and then read through
RECURSIVE NodeDeleter_loop(_, _, _)
NodeDeleter_loop(nodes, stack, deleted) ==
  IF stack = <<>> THEN [deleted |-> deleted, null_deref |-> FALSE]
  ELSE LET node == stack[Len(stack)]
           popped == Take(stack, Len(stack) - 1)
       IN  IF node = 0 THEN [deleted |-> deleted, null_deref |-> TRUE]
           ELSE NodeDeleter_loop(nodes,
                  IF nodes[node].type = "internal"
                    THEN Append(Append(popped, nodes[node].left), nodes[node].right)
                    ELSE popped,
                  Append(deleted, node))

NodeDeleter(nodes, root) ==
  IF root = 0 THEN [deleted |-> <<>>, null_deref |-> FALSE]
  ELSE NodeDeleter_loop(nodes, <<root>>, <<>>)

\* what read_tree hands back: the stream, the store, the root it returns (0
\* when it failed) and the root of the partly built tree that its local
\* handle releases on the way out (0 when there is none)
TreeRead(in, nodes, root) == [in |-> in, nodes |-> nodes, root |-> root, dropped |-> 0]
TreeDropped(in, nodes) == [in |-> in, nodes |-> nodes, root |-> 0, dropped |-> 1]

RECURSIVE read_tree_loop(_, _, _, _, _)
read_tree_loop(in, nodes, ancestors, next_node_id, size) ==
  IF ancestors = <<>> THEN TreeRead(in, nodes, 1)
  ELSE LET parent == ancestors[Len(ancestors)]
       IN  IF nodes[parent].left # 0 /\ nodes[parent].right # 0
             THEN read_tree_loop(in, nodes, Take(ancestors, Len(ancestors) - 1),
                                 next_node_id, size)
             ELSE LET g == get(in, FALSE)
                      s == get_symbol(g.in, <<>>, size)
                      node == Len(nodes) + 1
                      link(ns) == IF nodes[parent].left = 0
                                    THEN [ns EXCEPT ![parent].left = node]
                                    ELSE [ns EXCEPT ![parent].right = node]
                  IN  IF ~Good(g.in) THEN TreeDropped(g.in, nodes)
                      ELSE IF g.bit
                        THEN IF ~Good(s.in) THEN TreeDropped(s.in, nodes)
                             ELSE read_tree_loop(s.in,
                                    link(Append(nodes, LeafNode(s.symbol))),
                                    ancestors, next_node_id, size)
                        ELSE read_tree_loop(g.in,
                               link(Append(nodes, InternalNode(next_node_id))),
                               Append(ancestors, node), next_node_id + 1, size)

read_tree(in, size) ==
  LET g == get(in, FALSE)
      s == get_symbol(g.in, <<>>, size)
  IN  IF ~Good(g.in) THEN TreeRead(g.in, <<>>, 0)
      ELSE IF g.bit
        THEN IF ~Good(s.in) THEN TreeRead(s.in, <<>>, 0)
             ELSE TreeRead(s.in, <<LeafNode(s.symbol)>>, 1)
        ELSE read_tree_loop(g.in, <<InternalNode(1)>>, <<1>>, 2, size)

(***************************************************************************)
(* main_decode, by parts                                                   *)
(***************************************************************************)
\* a plausible slip: the version byte and the terminator are not compared
magic_matches_name_only(magic) == Take(magic, 6) = Take(Magic, 6)

\* std::equal(magic, magic + sizeof magic, expected)
magic_matches(magic) == magic = Magic

\* a plausible slip: the node is looked at before the stream is tested
RECURSIVE decode_symbol_type_first(_, _, _)
RECURSIVE decode_symbol(_, _, _)
decode_symbol_type_first(in, nodes, node) ==
  LET g == get(in, FALSE)
      next == IF g.bit THEN nodes[node].right ELSE nodes[node].left
  IN  IF node = 0 THEN [in |-> g.in, status |-> "null_deref", symbol |-> <<>>]
      ELSE IF ~Good(g.in) THEN [in |-> g.in, status |-> "eof", symbol |-> <<>>]
      ELSE IF nodes[node].type = "leaf"
        THEN IF g.bit THEN [in |-> g.in, status |-> "assert", symbol |-> nodes[node].leaf]
             ELSE [in |-> g.in, status |-> "symbol", symbol |-> nodes[node].leaf]
      ELSE IF next = 0 THEN [in |-> g.in, status |-> "null_deref", symbol |-> <<>>]
      ELSE IF nodes[next].type = "leaf"
        THEN [in |-> g.in, status |-> "symbol", symbol |-> nodes[next].leaf]
      ELSE decode_symbol_type_first(g.in, nodes, next)

\* the inner loop of main_decode: bits are read until a leaf is hit
decode_symbol(in, nodes, node) ==
  LET g == get(in, FALSE)
      next == IF g.bit THEN nodes[node].right ELSE nodes[node].left
  IN  IF ~Good(g.in) THEN [in |-> g.in, status |-> "eof", symbol |-> <<>>]
      ELSE IF node = 0 THEN [in |-> g.in, status |-> "null_deref", symbol |-> <<>>]
      ELSE IF nodes[node].type = "leaf"
        THEN IF g.bit THEN [in |-> g.in, status |-> "assert", symbol |-> nodes[node].leaf]
             ELSE [in |-> g.in, status |-> "symbol", symbol |-> nodes[node].leaf]
      ELSE IF next = 0 THEN [in |-> g.in, status |-> "null_deref", symbol |-> <<>>]
      ELSE IF nodes[next].type = "leaf"
        THEN [in |-> g.in, status |-> "symbol", symbol |-> nodes[next].leaf]
      ELSE decode_symbol(g.in, nodes, next)

\* while (bitin >> byte) out.put(byte)
RECURSIVE copy_extra(_, _)
copy_extra(in, out) ==
  LET g == get_char(in, 0)
  IN  IF ~Good(g.in) THEN [in |-> g.in, out |-> out]
      ELSE copy_extra(g.in, Append(out, g.ch))

(***************************************************************************)
(* State.  A run is one of the following.                                  *)
(*   huffer: "codec", main_encode on an input file followed by main_decode *)
(*   on a file derived from the encoder's output; "codec_pipe",            *)
(*   main_encode on /dev/stdin fed by a pipe; "decode", main_decode on     *)
(*   a forged file; "tree", main_write_tree followed by                    *)
(*   main_read_and_graph_tree on its output or a prefix of it; "words",    *)
(*   main_write_code_words; "graph", main_graph; "header",                 *)
(*   main_write_header followed by main_read_header on its output or a     *)
(*   prefix of it; "no_command" and "unknown_command", the two returns of  *)
(*   main itself.                                                          *)
(*   bits: "echo", echo_bits; "read", read_bits; "bits_usage" and          *)
(*   "bits_unknown_command", the two returns of main itself.               *)
(*   tree: "tree_proto", the main of tree.cpp.                             *)
(*   the two classes on their own: "bits", a bit writer fed bit by bit,    *)
(*   released and read back; "reader", a bit reader on a source that may   *)
(*   throw; "writer_api" and "reader_api", a client that also calls the    *)
(*   other public members, flush_byte and the setters of the status bits.  *)
(***************************************************************************)
VARIABLES
  mode,          \* which run this is
  pc,            \* the position of the run
  symbol_size,   \* the global symbol_size of the first process of the run
  input,         \* the bytes of the input file (the uncompressed input, or std::cin)
  symbols,       \* main_encode: Symbols
  heap,          \* build_tree: the nodes in the priority queue
  next_node_id,  \* build_tree: next_node_id
  tree,          \* main_encode: the tree build_tree returned
  bitout,        \* the OutputBitStream (its sink is the output of the first process)
  enc_marks,     \* number of bits written after the magic when each part of main_encode ended
  variant,       \* how the input of the second process derives from the output of the first
  dec_in,        \* the bytes of the input of the second process
  bitin,         \* the InputBitStream
  dec_symbol_size, \* the global symbol_size of the decoding process
  total_size,    \* main_decode: total_size
  dec_tree,      \* main_decode: the node store, the root read_tree returned, the root it dropped,
                 \* and what NodeDeleter did on that
  expanded_size, \* main_decode: expanded_size
  bytes_written, \* main_decode: bytes_written
  dec_out,       \* the bytes the second process wrote
  dec_marks,     \* number of bits read after the magic when each part of main_decode ended
  exit_code,     \* the values the processes of the run returned, in order
  put_log,       \* the bits of the successful put calls
  get_log        \* the caller's bit after each get call

vars == <<mode, pc, symbol_size, input, symbols, heap, next_node_id, tree, bitout,
          enc_marks, variant, dec_in, bitin, dec_symbol_size, total_size, dec_tree,
          expanded_size,
          bytes_written, dec_out, dec_marks, exit_code, put_log, get_log>>

enc_vars == <<symbols, heap, next_node_id, tree, enc_marks>>
dec_vars == <<variant, dec_in, dec_symbol_size, total_size, dec_tree, expanded_size, bytes_written,
              dec_out, dec_marks>>
log_vars == <<put_log, get_log>>

\* the commands of huffer and of bits
HufferModes == {"codec", "codec_pipe", "decode", "tree", "words", "graph", "header",
                "no_command", "unknown_command"}
BitsModes == {"echo", "read", "bits_usage", "bits_unknown_command"}
\* the runs that start by opening an input file and reading its symbols
EncModes == {"codec", "codec_pipe", "tree", "words", "graph", "header"}

\* sputc never fails, fails at once, fails after one byte
SinkCaps == {-1, 0, 1}
\* the sinks of the header runs: no limit, or full inside the magic, right
\* after it, or inside the header bits
HeaderSinkCaps == {-1, 0, 3, 7, 8, 12}

\* the byte values of the files that are printed as text: 'a', '\n', '"',
\* '\\', 0xff
TextBytes == {97, 10, 34, 92, 255}

\* the input files of the header runs: one of each length
LengthInputs == {[i \in 1..n |-> 97] : n \in 0..MaxLen}

\* the input files of the read_bits runs: short ones of all sorts, and one
\* that fills a line of eight bytes and begins another
ReadInputs == SeqsUpTo(TextBytes, MaxTextLen) \cup {[i \in 1..9 |-> 97]}

InputsOf(m) ==
  CASE m \in {"tree", "words"} -> TreeInputs
    [] m \in {"graph", "tree_proto"} -> SeqsUpTo(TextBytes, MaxTextLen)
    [] m = "codec_pipe" -> SeqsUpTo(InputBytes, MaxTextLen)
    [] m = "header" -> LengthInputs
    [] m = "read" -> ReadInputs
    [] m = "reader_api" -> {<<>>, <<255>>}
    [] m \in {"codec", "echo", "reader"} -> SeqsUpTo(InputBytes, MaxLen)
    [] OTHER -> {<<>>}

\* the values of SYMBOL_SIZE in the environment of each run, as atoi and
\* int(symbol_size) give them: -1 for a negative number, 0 also for a text
\* that is no number, sizes above 8; 1 is also the value symbol_size keeps
\* when the variable is not set.  The input files are shorter than a size
\* above 8, so that no read goes past the 8 bytes of a Symbol.
EnvSizes(m) ==
  CASE m \in {"codec", "header"} -> {-1} \cup 0..MaxEnvSize
    [] m \in {"graph", "codec_pipe"} -> 0..2
    [] OTHER -> {1}

NoTree == [nodes |-> <<>>, root |-> 0, dropped |-> 0,
           released |-> [deleted |-> <<>>, null_deref |-> FALSE]]

Init ==
  /\ mode \in HufferModes \cup BitsModes
               \cup {"tree_proto", "bits", "reader", "writer_api", "reader_api"}
  /\ pc = CASE mode \in HufferModes -> "main"
            [] mode \in BitsModes -> "bits_main"
            [] mode = "tree_proto" -> "proto_main"
            [] mode = "bits" -> "bits_put"
            [] mode = "reader" -> "reader_get"
            [] mode = "writer_api" -> "writer_api"
            [] OTHER -> "reader_api"
  /\ symbol_size = 1
  /\ input \in InputsOf(mode)
  /\ symbols = [info |-> NoInfo, extra |-> <<>>, total_size |-> 0]
  /\ heap = {}
  /\ next_node_id = 1
  /\ tree = NullTree
  /\ \E cap \in CASE mode \in {"bits", "writer_api"} -> SinkCaps
                  [] mode = "header" -> HeaderSinkCaps
                  [] OTHER -> {-1} :
       bitout = OutputBitStream(NewSink(<<>>, cap))
  /\ enc_marks = [header |-> 0, tree |-> 0, body |-> 0]
  /\ dec_in \in IF mode = "decode" THEN ForgedFiles ELSE {<<>>}
  /\ variant = IF mode = "decode" THEN [kind |-> "forged", len |-> Len(dec_in), at |-> 0]
               ELSE [kind |-> "none", len |-> 0, at |-> 0]
  /\ \E faults \in IF mode = "reader" THEN SUBSET (1..MaxFaultCall) ELSE {{}} :
       bitin = InputBitStream(NewSource(input, faults))
  /\ dec_symbol_size = 1
  /\ total_size = 0
  /\ dec_tree = NoTree
  /\ expanded_size = 0
  /\ bytes_written = 0
  /\ dec_out = <<>>
  /\ dec_marks = [header |-> 0, tree |-> 0]
  /\ exit_code = <<>>
  /\ put_log = <<>>
  /\ get_log = <<>>

\* the process returns code
Returns(code) == exit_code' = Append(exit_code, code)
\* the last process that returned, returned code
Returned(code) == exit_code # <<>> /\ exit_code[Len(exit_code)] = code

(***************************************************************************)
(* main of huffer: the usage returns, SYMBOL_SIZE, the command             *)
(***************************************************************************)
Main ==
  /\ pc = "main"
  /\ IF mode = "no_command"
       THEN Returns(ExitNoCommand) /\ pc' = "main_done" /\ UNCHANGED symbol_size
       ELSE /\ \E size \in EnvSizes(mode) : symbol_size' = size
            /\ CASE mode = "unknown_command" ->
                      Returns(ExitUnknownCommand) /\ pc' = "main_done"
                 [] mode = "decode" -> pc' = "dec_open" /\ UNCHANGED exit_code
                 [] OTHER -> pc' = "enc_open" /\ UNCHANGED exit_code
  /\ UNCHANGED <<mode, input, bitout, bitin>>
  /\ UNCHANGED <<enc_vars, dec_vars, log_vars>>

(***************************************************************************)
(* main_encode, and the other commands that read the symbols of a file     *)
(***************************************************************************)
MagicBits == 8 * Len(Magic)
EncBits(w) == BitsPut(w) - MagicBits
\* number of bits a reader has delivered so far
BitsGot(in) == 8 * (in.src.pos - 1) + MaskIndex(in.mask)
DecBits(in) == BitsGot(in) - MagicBits

\* std::ifstream in{input_path}; if (!in) return 42
EncOpen ==
  /\ pc = "enc_open"
  /\ \/ Returns(ExitCannotOpen) /\ pc' = "enc_failed"
     \/ pc' = "enc_start" /\ UNCHANGED exit_code
  /\ UNCHANGED <<mode, symbol_size, input, bitout, bitin>>
  /\ UNCHANGED <<enc_vars, dec_vars, log_vars>>

EncReadSymbols ==
  /\ pc = "enc_start"
  /\ symbol_size > 0
  /\ symbols' = read_symbols(input, symbol_size)
  /\ pc' = IF mode = "header" THEN "hdr_write" ELSE "enc_leaves"
  /\ UNCHANGED <<mode, symbol_size, input, heap, next_node_id, tree, bitout, enc_marks,
                 bitin, exit_code>>
  /\ UNCHANGED <<dec_vars, log_vars>>

\* with symbol_size 0 every read of read_symbols delivers its 0 bytes and
\* the loop never ends
EncReadSymbolsForever ==
  /\ pc = "enc_start"
  /\ symbol_size = 0
  /\ pc' = "enc_read_forever"
  /\ UNCHANGED <<mode, symbol_size, input, bitout, bitin, exit_code>>
  /\ UNCHANGED <<enc_vars, dec_vars, log_vars>>

\* with a negative SYMBOL_SIZE symbol_size is a huge number: every read
\* delivers nothing, no count is below int(symbol_size), and the hash and
\* the comparison of a Symbol run from data() to data() + symbol_size, out
\* of the buffer.  The behaviour is undefined: the loop goes on, or the
\* process dies.
EncReadSymbolsUndefined ==
  /\ pc = "enc_start"
  /\ symbol_size < 0
  /\ \/ pc' = "enc_read_forever"
     \/ pc' = "enc_crashed"
  /\ UNCHANGED <<mode, symbol_size, input, bitout, bitin, exit_code>>
  /\ UNCHANGED <<enc_vars, dec_vars, log_vars>>

BuildTreeLeaves ==
  /\ pc = "enc_leaves"
  /\ heap' = build_tree_leaves(symbols)
  /\ next_node_id' = 1
  /\ pc' = "enc_combine"
  /\ UNCHANGED <<mode, symbol_size, input, symbols, tree, bitout, enc_marks, bitin,
                 exit_code>>
  /\ UNCHANGED <<dec_vars, log_vars>>

BuildTreeCombine ==
  /\ pc = "enc_combine"
  /\ Cardinality(heap) > 1
  /\ \E left \in heap :
       /\ IsTop(heap, left)
       /\ \E right \in heap \ {left} :
            /\ IsTop(heap \ {left}, right)
            /\ heap' = build_tree_combine(heap, next_node_id, left, right)
  /\ next_node_id' = next_node_id + 1
  /\ UNCHANGED <<mode, pc, symbol_size, input, symbols, tree, bitout, enc_marks, bitin,
                 exit_code>>
  /\ UNCHANGED <<dec_vars, log_vars>>

\* build_tree returns; build_code_words comes next in main_encode and
\* main_write_code_words only
BuildTreeReturn ==
  /\ pc = "enc_combine"
  /\ Cardinality(heap) <= 1
  /\ tree' = build_tree_result(heap)
  /\ pc' = CASE mode = "tree" -> "tree_write"
             [] mode = "graph" -> "graph_write"
             [] OTHER -> "enc_code_words"
  /\ UNCHANGED <<mode, symbol_size, input, symbols, heap, next_node_id, bitout, enc_marks,
                 bitin, exit_code>>
  /\ UNCHANGED <<dec_vars, log_vars>>

BuildCodeWords ==
  /\ pc = "enc_code_words"
  /\ symbols' = [symbols EXCEPT !.info = build_code_words(@, tree)]
  /\ pc' = IF mode = "words" THEN "words_write" ELSE "enc_header"
  /\ UNCHANGED <<mode, symbol_size, input, heap, next_node_id, tree, bitout, enc_marks,
                 bitin, exit_code>>
  /\ UNCHANGED <<dec_vars, log_vars>>

EncWriteHeader ==
  /\ pc = "enc_header"
  /\ bitout' = write_header(bitout.sink, symbols.total_size, symbol_size)
  /\ enc_marks' = [enc_marks EXCEPT !.header = EncBits(bitout')]
  /\ pc' = "enc_tree"
  /\ UNCHANGED <<mode, symbol_size, input, symbols, heap, next_node_id, tree, bitin,
                 exit_code>>
  /\ UNCHANGED <<dec_vars, log_vars>>

EncWriteTree ==
  /\ pc = "enc_tree"
  /\ bitout' = write_tree(bitout, tree)
  /\ enc_marks' = [enc_marks EXCEPT !.tree = EncBits(bitout')]
  /\ pc' = "enc_body"
  /\ UNCHANGED <<mode, symbol_size, input, symbols, heap, next_node_id, tree, bitin,
                 exit_code>>
  /\ UNCHANGED <<dec_vars, log_vars>>

\* in.clear(); in.seekg(0, std::ios::beg): what the reads of the second pass
\* deliver.  On a pipe the seek fails and they deliver nothing.
second_pass(in, m) == IF m = "codec_pipe" THEN <<>> ELSE in

EncWriteBody ==
  /\ pc = "enc_body"
  /\ bitout' = write_body(bitout, second_pass(input, mode), symbols.info, symbol_size)
  /\ enc_marks' = [enc_marks EXCEPT !.body = EncBits(bitout')]
  /\ pc' = "enc_release"
  /\ UNCHANGED <<mode, symbol_size, input, symbols, heap, next_node_id, tree, bitin,
                 exit_code>>
  /\ UNCHANGED <<dec_vars, log_vars>>

\* return 0: the bit writer is released, which sends the last byte
EncReturn ==
  /\ pc = "enc_release"
  /\ bitout' = flush_byte(bitout)
  /\ Returns(ExitSuccess)
  /\ pc' = "enc_done"
  /\ UNCHANGED <<mode, symbol_size, input, bitin>>
  /\ UNCHANGED <<enc_vars, dec_vars, log_vars>>

\* the file main_encode wrote
Encoded == bitout.sink.bytes

(***************************************************************************)
(* main_decode                                                             *)
(***************************************************************************)
\* the files handed to the decoder: the encoder's output, each of its
\* proper prefixes, and the output with one byte of the magic changed
Variants ==
  {[kind |-> "intact", len |-> Len(Encoded), at |-> 0]}
    \cup {[kind |-> "prefix", len |-> n, at |-> 0] : n \in 0..(Len(Encoded) - 1)}
    \cup {[kind |-> "bad_magic", len |-> Len(Encoded), at |-> i] : i \in 1..Len(Magic)}

FileOf(v) ==
  CASE v.kind = "intact" -> Encoded
    [] v.kind = "prefix" -> Take(Encoded, v.len)
    [] OTHER -> [Encoded EXCEPT ![v.at] = (@ + 1) % 256]

\* no file to open
Missing == [kind |-> "missing", len |-> 0, at |-> 0]

Return(code) ==
  /\ Returns(code)
  /\ pc' = "dec_done"

\* std::ifstream in{input_path}; if (!in) return 42, on a file derived from
\* the encoder's output
DecOpen ==
  /\ pc = "enc_done"
  /\ mode = "codec"
  /\ \/ /\ variant' = Missing
        /\ dec_in' = <<>>
        /\ Return(ExitCannotOpen)
     \/ /\ \E v \in Variants :
             /\ variant' = v
             /\ dec_in' = FileOf(v)
        /\ pc' = "dec_magic"
        /\ UNCHANGED exit_code
  /\ UNCHANGED <<mode, symbol_size, input, bitout, bitin, dec_symbol_size, total_size,
                 dec_tree, expanded_size, bytes_written, dec_out, dec_marks>>
  /\ UNCHANGED <<enc_vars, log_vars>>

\* the same, on a forged file
DecOpenForged ==
  /\ pc = "dec_open"
  /\ \/ /\ variant' = Missing
        /\ dec_in' = <<>>
        /\ Return(ExitCannotOpen)
     \/ /\ pc' = "dec_magic"
        /\ UNCHANGED <<variant, dec_in, exit_code>>
  /\ UNCHANGED <<mode, symbol_size, input, bitout, bitin, dec_symbol_size, total_size,
                 dec_tree, expanded_size, bytes_written, dec_out, dec_marks>>
  /\ UNCHANGED <<enc_vars, log_vars>>

DecReadMagic ==
  /\ pc = "dec_magic"
  /\ IF Len(dec_in) < Len(Magic)
       THEN Return(ExitShortMagic) /\ UNCHANGED bitin
     ELSE IF ~magic_matches(Take(dec_in, Len(Magic)))
       THEN Return(ExitBadMagic) /\ UNCHANGED bitin
     ELSE /\ bitin' = InputBitStream([NewSource(dec_in, {}) EXCEPT !.pos = Len(Magic)])
          /\ pc' = "dec_header"
          /\ UNCHANGED exit_code
  /\ UNCHANGED <<mode, symbol_size, input, bitout>>
  /\ UNCHANGED <<enc_vars, dec_vars, log_vars>>

DecReadHeader ==
  /\ pc = "dec_header"
  /\ LET t == get_bitset(bitin, [i \in 1..TotalSizeBits |-> FALSE], 1)
         s == get_bitset(t.in, [i \in 1..SymbolSizeBits |-> FALSE], 1)
     IN  IF ~Good(t.in)
           THEN /\ Return(ExitTruncatedTotalSize)
                /\ bitin' = t.in
                /\ UNCHANGED <<dec_symbol_size, total_size, dec_marks>>
         ELSE IF ~Good(s.in)
           THEN /\ Return(ExitTruncatedSymbolSize)
                /\ bitin' = s.in
                /\ UNCHANGED <<dec_symbol_size, total_size, dec_marks>>
         ELSE /\ bitin' = s.in
              /\ total_size' = to_ullong(t.bits)
              /\ dec_symbol_size' = to_ullong(s.bits) + 1
              /\ dec_marks' = [dec_marks EXCEPT !.header = DecBits(s.in)]
              /\ IF dec_symbol_size' > MaxSymbolSize THEN Return(ExitBadSymbolSize)
                 ELSE IF total_size' = 0 THEN Return(ExitSuccess)
                 ELSE pc' = "dec_tree" /\ UNCHANGED exit_code
  /\ UNCHANGED <<mode, symbol_size, input, bitout, variant, dec_in, dec_tree,
                 expanded_size, bytes_written, dec_out>>
  /\ UNCHANGED <<enc_vars, log_vars>>

\* Tree tree = read_tree(bitin), up to the return of read_tree
DecReadTree ==
  /\ pc = "dec_tree"
  /\ LET r == read_tree(bitin, dec_symbol_size)
     IN  /\ bitin' = r.in
         /\ dec_tree' = [NoTree EXCEPT !.nodes = r.nodes, !.root = r.root,
                                       !.dropped = r.dropped]
         /\ dec_marks' = [dec_marks EXCEPT !.tree = DecBits(r.in)]
         /\ IF r.dropped # 0
              THEN pc' = "dec_drop_tree" /\ UNCHANGED <<expanded_size, bytes_written>>
              ELSE /\ pc' = "dec_body"
                   /\ expanded_size' = total_size - (total_size % dec_symbol_size)
                   /\ bytes_written' = 0
  /\ UNCHANGED <<mode, symbol_size, input, bitout, variant, dec_in, dec_symbol_size,
                 total_size, dec_out, exit_code>>
  /\ UNCHANGED <<enc_vars, log_vars>>

\* read_tree gave up on a partly built tree: its root handle goes out of
\* scope and NodeDeleter runs on it.  Where the deleter reads through a null
\* pointer the process is killed there, or the read goes unpunished and
\* main_decode goes on with a null tree.
DecDropTree ==
  /\ pc = "dec_drop_tree"
  /\ LET d == NodeDeleter(dec_tree.nodes, dec_tree.dropped)
     IN  /\ dec_tree' = [dec_tree EXCEPT !.released = d]
         /\ \/ /\ d.null_deref
               /\ pc' = "dec_crashed"
               /\ UNCHANGED <<expanded_size, bytes_written>>
            \/ /\ pc' = "dec_body"
               /\ expanded_size' = total_size - (total_size % dec_symbol_size)
               /\ bytes_written' = 0
  /\ UNCHANGED <<mode, symbol_size, input, bitout, bitin, variant, dec_in,
                 dec_symbol_size, total_size, dec_out, dec_marks, exit_code>>
  /\ UNCHANGED <<enc_vars, log_vars>>

DecSymbol ==
  /\ pc = "dec_body"
  /\ bytes_written < expanded_size
  /\ LET d == decode_symbol(bitin, dec_tree.nodes, dec_tree.root)
     IN  /\ bitin' = d.in
         /\ CASE d.status = "eof" ->
                   Return(ExitTruncatedBody) /\ UNCHANGED <<dec_out, bytes_written>>
              [] d.status = "symbol" ->
                   /\ dec_out' = dec_out \o d.symbol
                   /\ bytes_written' = bytes_written + dec_symbol_size
                   /\ UNCHANGED <<pc, exit_code>>
              [] d.status = "assert" ->
                   \* assert(!bit) fails: the process aborts, or, where the
                   \* build disables assertions, the symbol is written
                   \/ pc' = "dec_crashed" /\ UNCHANGED <<dec_out, bytes_written, exit_code>>
                   \/ /\ dec_out' = dec_out \o d.symbol
                      /\ bytes_written' = bytes_written + dec_symbol_size
                      /\ UNCHANGED <<pc, exit_code>>
              [] OTHER ->
                   pc' = "dec_crashed" /\ UNCHANGED <<dec_out, bytes_written, exit_code>>
  /\ UNCHANGED <<mode, symbol_size, input, bitout, variant, dec_in, dec_symbol_size,
                 total_size, dec_tree, expanded_size, dec_marks>>
  /\ UNCHANGED <<enc_vars, log_vars>>

DecCopyExtra ==
  /\ pc = "dec_body"
  /\ ~(bytes_written < expanded_size)
  /\ LET c == copy_extra(bitin, dec_out)
     IN  bitin' = c.in /\ dec_out' = c.out
  /\ Return(ExitSuccess)
  /\ UNCHANGED <<mode, symbol_size, input, bitout, variant, dec_in, dec_symbol_size,
                 total_size, dec_tree, expanded_size, bytes_written, dec_marks>>
  /\ UNCHANGED <<enc_vars, log_vars>>

(***************************************************************************)
(* main_write_tree, then main_read_and_graph_tree on the file written or   *)
(* on a prefix of it.                                                      *)
(***************************************************************************)
\* main_write_tree: a bit writer on the output, write_tree, and the release
\* of the writer at the return
TreeWrite ==
  /\ pc = "tree_write"
  /\ LET w == write_tree(bitout, tree)
     IN  /\ bitout' = flush_byte(w)
         /\ enc_marks' = [enc_marks EXCEPT !.tree = BitsPut(w)]
  /\ Returns(ExitSuccess)
  /\ pc' = "tree_read"
  /\ UNCHANGED <<mode, symbol_size, input, symbols, heap, next_node_id, tree, bitin>>
  /\ UNCHANGED <<dec_vars, log_vars>>

\* the tree read_tree built, as graph_tree sees it: every weight is 0
RECURSIVE StoredTree(_, _)
StoredTree(nodes, p) ==
  CASE p = 0 -> NullTree
    [] nodes[p].type = "leaf" -> Leaf(nodes[p].leaf, 0)
    [] OTHER -> [type |-> "internal", weight |-> 0, id |-> nodes[p].id,
                 left |-> StoredTree(nodes, nodes[p].left),
                 right |-> StoredTree(nodes, nodes[p].right)]

\* what main_read_and_graph_tree does with the outcome of read_tree
tree_read_outcome(r) ==
  IF r.dropped # 0
    THEN pc' = "tree_drop" /\ UNCHANGED <<exit_code, dec_out>>
  ELSE IF r.root = 0
    THEN pc' = "tree_done" /\ Returns(1) /\ UNCHANGED dec_out
  ELSE /\ pc' = "tree_done"
       /\ dec_out' = dec_out \o graph_tree(StoredTree(r.nodes, r.root), <<>>)
       /\ Returns(ExitSuccess)

\* main_read_and_graph_tree, up to the return of read_tree when that leaves
\* a partly built tree behind, to its own return otherwise
TreeReadBack ==
  /\ pc = "tree_read"
  /\ \E n \in 0..Len(bitout.sink.bytes) :
       /\ variant' = [kind |-> IF n = Len(bitout.sink.bytes) THEN "intact" ELSE "prefix",
                      len |-> n, at |-> 0]
       /\ dec_in' = Take(bitout.sink.bytes, n)
  /\ LET r == read_tree(InputBitStream(NewSource(dec_in', {})), symbol_size)
     IN  /\ bitin' = r.in
         /\ dec_tree' = [NoTree EXCEPT !.nodes = r.nodes, !.root = r.root,
                                       !.dropped = r.dropped]
         /\ dec_marks' = [dec_marks EXCEPT !.tree = BitsGot(r.in)]
         /\ tree_read_outcome(r)
  /\ UNCHANGED <<mode, symbol_size, input, bitout, dec_symbol_size, total_size,
                 expanded_size, bytes_written>>
  /\ UNCHANGED <<enc_vars, log_vars>>

\* the release of the partly built tree read_tree gave up on, as in
\* DecDropTree, and the return 1 that follows it
TreeDrop ==
  /\ pc = "tree_drop"
  /\ LET d == NodeDeleter(dec_tree.nodes, dec_tree.dropped)
     IN  /\ dec_tree' = [dec_tree EXCEPT !.released = d]
         /\ \/ d.null_deref /\ pc' = "dec_crashed" /\ UNCHANGED exit_code
            \/ pc' = "tree_done" /\ Returns(1)
  /\ UNCHANGED <<mode, symbol_size, input, bitout, bitin, variant, dec_in,
                 dec_symbol_size, total_size, expanded_size, bytes_written, dec_out,
                 dec_marks>>
  /\ UNCHANGED <<enc_vars, log_vars>>

(***************************************************************************)
(* main_write_code_words                                                   *)
(***************************************************************************)
\* the orders in which the loop over symbols.info may visit the symbols: the
\* map is unordered
Orderings(S) ==
  {order \in [1..Cardinality(S) -> S] :
     \A i, j \in 1..Cardinality(S) : i # j => order[i] # order[j]}

\* one line per symbol: "symbol" -> 0bcode, the symbol with its escapes
RECURSIVE code_word_lines(_, _, _)
code_word_lines(info, order, i) ==
  IF i > Len(order) THEN <<>>
  ELSE <<34>> \o dubscaped(order[i]) \o <<34, 32, 45, 62, 32>>
         \o text(info[order[i]].code_word) \o <<10>>
         \o code_word_lines(info, order, i + 1)

WordsWrite ==
  /\ pc = "words_write"
  /\ \E order \in Orderings(DOMAIN symbols.info) :
       bitout' = [bitout EXCEPT
                    !.sink = ostream_write(@, code_word_lines(symbols.info, order, 1))]
  /\ Returns(ExitSuccess)
  /\ pc' = "words_done"
  /\ UNCHANGED <<mode, symbol_size, input, bitin>>
  /\ UNCHANGED <<enc_vars, dec_vars, log_vars>>

(***************************************************************************)
(* main_graph                                                              *)
(***************************************************************************)
GraphWrite ==
  /\ pc = "graph_write"
  /\ bitout' = IF tree.type = "null" THEN bitout
               ELSE [bitout EXCEPT
                       !.sink = ostream_write(@, graph_tree(tree, symbols.extra))]
  /\ Returns(ExitSuccess)
  /\ pc' = "graph_done"
  /\ UNCHANGED <<mode, symbol_size, input, bitin>>
  /\ UNCHANGED <<enc_vars, dec_vars, log_vars>>

(***************************************************************************)
(* main_write_header, then main_read_header on the file written, on a      *)
(* prefix of it, or on the file with its version changed.                  *)
(***************************************************************************)
\* the magic, the two bitsets through a bit writer, and the release of the
\* writer at the return
HeaderWrite ==
  /\ pc = "hdr_write"
  /\ bitout' = flush_byte(write_header(bitout.sink, symbols.total_size, symbol_size))
  /\ Returns(ExitSuccess)
  /\ pc' = "hdr_read"
  /\ UNCHANGED <<mode, symbol_size, input, bitin>>
  /\ UNCHANGED <<enc_vars, dec_vars, log_vars>>

\* main_read_header on a file: the reader as it leaves it, the text printed
\* and the value returned
read_header(file) ==
  LET start == InputBitStream([NewSource(file, {}) EXCEPT !.pos = Len(Magic)])
      t == get_bitset(start, [i \in 1..TotalSizeBits |-> FALSE], 1)
      s == get_bitset(t.in, [i \in 1..SymbolSizeBits |-> FALSE], 1)
  IN  IF Len(file) < Len(Magic)
        THEN [in |-> InputBitStream(NewSource(file, {})), out |-> <<>>,
              code |-> ExitShortMagic]
      ELSE IF ~magic_matches(Take(file, Len(Magic)))
        THEN [in |-> InputBitStream(NewSource(file, {})), out |-> <<>>,
              code |-> ExitBadMagic]
      ELSE IF ~Good(t.in)
        THEN [in |-> t.in, out |-> <<>>, code |-> ExitTruncatedTotalSize]
      ELSE IF ~Good(s.in)
        THEN [in |-> s.in, out |-> <<>>, code |-> ExitTruncatedSymbolSize]
      ELSE [in |-> s.in,
            out |-> <<116, 111, 116, 97, 108, 95, 115, 105, 122, 101, 58, 32>>
                      \o Decimal(to_ullong(t.bits))
                      \o <<10, 115, 121, 109, 98, 111, 108, 95, 115, 105, 122, 101, 58, 32>>
                      \o Decimal(to_ullong(s.bits) + 1) \o <<10>>,
            code |-> ExitSuccess]

\* the files handed to main_read_header
HeaderVariants ==
  {[kind |-> IF n = Len(Encoded) THEN "intact" ELSE "prefix", len |-> n, at |-> 0] :
     n \in 0..Len(Encoded)}
    \cup (IF Len(Encoded) < Len(Magic) THEN {}
          ELSE {[kind |-> "bad_magic", len |-> Len(Encoded), at |-> Len(Magic) - 1]})

HeaderRead ==
  /\ pc = "hdr_read"
  /\ \E v \in HeaderVariants :
       /\ variant' = v
       /\ dec_in' = FileOf(v)
  /\ LET r == read_header(dec_in')
     IN  /\ bitin' = r.in
         /\ dec_out' = dec_out \o r.out
         /\ Returns(r.code)
  /\ pc' = "hdr_done"
  /\ UNCHANGED <<mode, symbol_size, input, bitout, dec_symbol_size, total_size, dec_tree,
                 expanded_size, bytes_written, dec_marks>>
  /\ UNCHANGED <<enc_vars, log_vars>>

(***************************************************************************)
(* A bit writer fed bit by bit, released, and its bytes read back.         *)
(***************************************************************************)
BitsPutStep ==
  /\ pc = "bits_put"
  /\ Len(put_log) < MaxBits
  /\ \E bit \in BOOLEAN :
       /\ bitout' = put(bitout, bit)
       /\ put_log' = IF bitout'.bad_bit THEN put_log ELSE Append(put_log, bit)
  /\ UNCHANGED <<mode, pc, symbol_size, input, bitin, exit_code, get_log>>
  /\ UNCHANGED <<enc_vars, dec_vars>>

\* ~OutputBitStream, then a reader is opened on the bytes of the sink
BitsRelease ==
  /\ pc = "bits_put"
  /\ bitout' = flush_byte(bitout)
  /\ bitin' = InputBitStream(NewSource(bitout'.sink.bytes, {}))
  /\ pc' = "bits_get"
  /\ UNCHANGED <<mode, symbol_size, input, exit_code>>
  /\ UNCHANGED <<enc_vars, dec_vars, log_vars>>

BitsGetStep ==
  /\ pc = "bits_get"
  /\ LET g == get(bitin, FALSE)
     IN  /\ bitin' = g.in
         /\ IF Good(g.in)
              THEN get_log' = Append(get_log, g.bit) /\ UNCHANGED pc
              ELSE pc' = "bits_done" /\ UNCHANGED get_log
  /\ UNCHANGED <<mode, symbol_size, input, bitout, exit_code, put_log>>
  /\ UNCHANGED <<enc_vars, dec_vars>>

(***************************************************************************)
(* A bit reader on a source that may throw, asked for bit after bit, also  *)
(* after it has failed.  get_log holds the caller's bit after each get.    *)
(***************************************************************************)
\* the caller's bit variable
CallerBit == IF get_log = <<>> THEN FALSE ELSE get_log[Len(get_log)]

ReaderGetStep ==
  /\ pc \in {"reader_get", "reader_api"}
  /\ Len(get_log) < MaxGets
  /\ LET g == get(bitin, CallerBit)
     IN  /\ bitin' = g.in
         /\ get_log' = Append(get_log, g.bit)
  /\ UNCHANGED <<mode, pc, symbol_size, input, bitout, exit_code, put_log>>
  /\ UNCHANGED <<enc_vars, dec_vars>>

(***************************************************************************)
(* The other public members of the two classes, called by a client between *)
(* its gets and puts.                                                      *)
(***************************************************************************)
\* InputBitStream::eof(bool), fail(bool), bad(bool)
ReaderSetStatus ==
  /\ pc = "reader_api"
  /\ \E status \in {"eof_bit", "fail_bit", "bad_bit"} : \E bit \in BOOLEAN :
       bitin' = [bitin EXCEPT ![status] = bit]
  /\ UNCHANGED <<mode, pc, symbol_size, input, bitout, exit_code>>
  /\ UNCHANGED <<enc_vars, dec_vars, log_vars>>

WriterPut ==
  /\ pc = "writer_api"
  /\ Len(put_log) < MaxApiPuts
  /\ \E bit \in BOOLEAN :
       /\ bitout' = put(bitout, bit)
       /\ put_log' = IF bitout'.bad_bit THEN put_log ELSE Append(put_log, bit)
  /\ UNCHANGED <<mode, pc, symbol_size, input, bitin, exit_code, get_log>>
  /\ UNCHANGED <<enc_vars, dec_vars>>

\* OutputBitStream::flush_byte, called by the client
WriterFlush ==
  /\ pc = "writer_api"
  /\ bitout' = flush_byte(bitout)
  /\ UNCHANGED <<mode, pc, symbol_size, input, bitin, exit_code>>
  /\ UNCHANGED <<enc_vars, dec_vars, log_vars>>

\* OutputBitStream::bad(bool)
WriterSetBad ==
  /\ pc = "writer_api"
  /\ \E bit \in BOOLEAN : bitout' = [bitout EXCEPT !.bad_bit = bit]
  /\ UNCHANGED <<mode, pc, symbol_size, input, bitin, exit_code>>
  /\ UNCHANGED <<enc_vars, dec_vars, log_vars>>

(***************************************************************************)
(* bits: main, echo_bits, read_bits                                        *)
(***************************************************************************)
BitsMain ==
  /\ pc = "bits_main"
  /\ CASE mode = "bits_usage" -> Returns(ExitBitsUsage) /\ pc' = "main_done"
       [] mode = "bits_unknown_command" -> Returns(ExitSuccess) /\ pc' = "main_done"
       [] mode = "echo" -> pc' = "echo_loop" /\ UNCHANGED exit_code
       [] OTHER -> pc' = "read_loop" /\ UNCHANGED exit_code
  /\ UNCHANGED <<mode, symbol_size, input, bitout, bitin>>
  /\ UNCHANGED <<enc_vars, dec_vars, log_vars>>

EchoStep ==
  /\ pc = "echo_loop"
  /\ LET g == get(bitin, FALSE)
     IN  /\ bitin' = g.in
         /\ IF Good(g.in)
              THEN bitout' = put(bitout, g.bit) /\ UNCHANGED pc
              ELSE pc' = "echo_exit" /\ UNCHANGED bitout
  /\ UNCHANGED <<mode, symbol_size, input, exit_code>>
  /\ UNCHANGED <<enc_vars, dec_vars, log_vars>>

\* return in.bad() || out.fail(), and then the writer is released
EchoReturn ==
  /\ pc = "echo_exit"
  /\ Returns(IF bitin.bad_bit \/ bitout.bad_bit THEN 1 ELSE 0)
  /\ bitout' = flush_byte(bitout)
  /\ pc' = "echo_done"
  /\ UNCHANGED <<mode, symbol_size, input, bitin>>
  /\ UNCHANGED <<enc_vars, dec_vars, log_vars>>

\* the inner loop of read_bits: up to eight bits into byte[j]; j is where it
\* stopped
RECURSIVE read_bits_byte(_, _, _)
read_bits_byte(in, byte, j) ==
  IF j = 8 THEN [in |-> in, byte |-> byte, j |-> j]
  ELSE LET g == get(in, FALSE)
       IN  IF ~Good(g.in) THEN [in |-> g.in, byte |-> byte, j |-> j]
           ELSE read_bits_byte(g.in, [byte EXCEPT ![j + 1] = g.bit], j + 1)

\* std::cout << byte for a bitset: the bits as characters, the highest first
RECURSIVE bitset_text(_)
bitset_text(bits) ==
  IF bits = <<>> THEN <<>>
  ELSE <<IF bits[Len(bits)] THEN 49 ELSE 48>> \o bitset_text(Take(bits, Len(bits) - 1))

\* one round of the outer loop of read_bits; i is the number of bytes
\* printed so far
ReadBitsStep ==
  /\ pc = "read_loop"
  /\ LET i == bitin.src.pos
         r == read_bits_byte(bitin, [k \in 1..8 |-> FALSE], 0)
         sep == IF i % bytes_per_line = bytes_per_line - 1 THEN 10 ELSE 32
     IN  /\ bitin' = r.in
         /\ IF r.j < 8
              THEN /\ bitout' = [bitout EXCEPT !.sink = ostream_write(@, <<10>>)]
                   /\ Returns(IF r.j # 0 THEN 1 ELSE 0)
                   /\ pc' = "read_done"
              ELSE /\ bitout' = [bitout EXCEPT !.sink =
                                   ostream_write(@, bitset_text(r.byte) \o <<40>>
                                                      \o putc_escaped(to_ullong(r.byte))
                                                      \o <<41, sep>>)]
                   /\ UNCHANGED <<pc, exit_code>>
  /\ UNCHANGED <<mode, symbol_size, input>>
  /\ UNCHANGED <<enc_vars, dec_vars, log_vars>>

(***************************************************************************)
(* tree.cpp: a program of its own that counts the symbols of std::cin and  *)
(* prints the graph while it builds the tree.  Its nodes are flat, a leaf  *)
(* holds its symbol and an internal node its number; its putc_dubscaped,   *)
(* dubscaped and hexed are those of huffer.cpp.  symbol_size is fixed when *)
(* the program is compiled.                                                *)
(***************************************************************************)
\* the values of SYMBOL_SIZE the program is compiled with
ProtoSizes == {1, 2}

\* ++symbols.at[buffer].count
CountAt(at, buffer) ==
  [symbol \in DOMAIN at \cup {buffer} |->
     IF symbol = buffer
       THEN [count |-> (IF buffer \in DOMAIN at THEN at[buffer].count ELSE 0) + 1,
             code_word |-> <<>>]
       ELSE at[symbol]]

\* operator>>(std::istream&, Symbols&): a whole symbol is counted, a shorter
\* last read goes to extra, an empty one ends the loop
RECURSIVE extract_symbols_loop(_, _, _)
extract_symbols_loop(rest, syms, size) ==
  LET count == IF Len(rest) < size THEN Len(rest) ELSE size
      buffer == Take(rest, count)
  IN  IF count = size
        THEN extract_symbols_loop(Drop(rest, count),
                                  [syms EXCEPT !.at = CountAt(@, buffer)], size)
      ELSE IF count = 0 THEN syms
      ELSE [syms EXCEPT !.extra = buffer]

extract_symbols(in, size) ==
  extract_symbols_loop(in, [at |-> <<>>, extra |-> <<>>], size)

\* fill_leaves: one leaf per symbol of the map
fill_leaves(syms) ==
  {[weight |-> syms.at[symbol].count, which |-> "leaf", leaf |-> symbol] :
     symbol \in DOMAIN syms.at}

\* Node::print_name
print_name(node) ==
  IF node.which = "leaf"
    THEN <<108, 101, 97, 102, 95, 48, 120>> \o hexed(node.leaf)
    ELSE <<105, 110, 116, 101, 114, 110, 97, 108, 95>> \o Decimal(node.internal)

\* Node::print_label_quoted
print_label_quoted(node) ==
  IF node.which = "leaf"
    THEN <<34, 92, 34>> \o dubscaped(node.leaf) \o <<92, 34, 32, 40>>
           \o Decimal(node.weight) \o <<41, 34>>
    ELSE <<34, 40>> \o Decimal(node.weight) \o <<41, 34>>

\* build_tree: "  " << node.name() << " [label=" << node.label_quoted() << "];\n"
popped_line(node) ==
  <<32, 32>> \o print_name(node) \o <<32, 91, 108, 97, 98, 101, 108, 61>>
    \o print_label_quoted(node) \o <<93, 59, 10>>

\* build_tree: "  " << parent.name() << " -> " << child.name() << " [label=\"0\"];\n"
arrow_line(parent, child, digit) ==
  <<32, 32>> \o print_name(parent) \o <<32, 45, 62, 32>> \o print_name(child)
    \o <<32, 91, 108, 97, 98, 101, 108, 61, 34, digit, 34, 93, 59, 10>>

\* build_tree: the comment about the extra bytes, and the opening line when
\* the heap has a node
build_tree_opening(nodes, extra) ==
  (IF extra = <<>> THEN <<>>
   ELSE <<35, 32, 73, 110, 112, 117, 116, 32, 104, 97, 115, 32>> \o Decimal(Len(extra))
          \o <<32, 101, 120, 116, 114, 97, 32, 116, 114, 97, 105, 108, 105, 110, 103, 32,
               98, 121, 116, 101, 115, 58, 32, 48, 120>>
          \o hexed(extra) \o <<10>>)
    \o (IF nodes = {} THEN <<>> ELSE <<100, 105, 103, 114, 97, 112, 104, 32, 123, 10>>)

\* build_tree: the parent of the two nodes popped
proto_parent(left, right, next_internal_node) ==
  [weight |-> left.weight + right.weight, which |-> "internal",
   internal |-> next_internal_node]

\* std::cin >> symbols; if (std::cin.bad()) return 1.  The stream is bad
\* when its buffer throws.
ProtoMain ==
  /\ pc = "proto_main"
  /\ \/ /\ Returns(ExitBadInput)
        /\ pc' = "proto_done"
        /\ UNCHANGED <<symbol_size, symbols>>
     \/ /\ \E size \in ProtoSizes :
             /\ symbol_size' = size
             /\ symbols' = extract_symbols(input, size)
        /\ pc' = "proto_fill"
        /\ UNCHANGED exit_code
  /\ UNCHANGED <<mode, input, heap, next_node_id, tree, enc_marks, bitout, bitin>>
  /\ UNCHANGED <<dec_vars, log_vars>>

\* fill_leaves, and build_tree up to its loop
ProtoFillLeaves ==
  /\ pc = "proto_fill"
  /\ heap' = fill_leaves(symbols)
  /\ next_node_id' = 0
  /\ bitout' = [bitout EXCEPT
                  !.sink = ostream_write(@, build_tree_opening(heap', symbols.extra))]
  /\ pc' = IF heap' = {} THEN "proto_return" ELSE "proto_loop"
  /\ UNCHANGED <<mode, symbol_size, input, symbols, tree, enc_marks, bitin, exit_code>>
  /\ UNCHANGED <<dec_vars, log_vars>>

\* one round of the loop of build_tree
ProtoBuildTree ==
  /\ pc = "proto_loop"
  /\ \E left \in heap :
       /\ IsTop(heap, left)
       /\ IF heap = {left}
            THEN /\ bitout' = [bitout EXCEPT
                                 !.sink = ostream_write(@, popped_line(left) \o <<125, 10>>)]
                 /\ heap' = {}
                 /\ pc' = "proto_return"
                 /\ UNCHANGED next_node_id
            ELSE \E right \in heap \ {left} :
                   /\ IsTop(heap \ {left}, right)
                   /\ LET parent == proto_parent(left, right, next_node_id)
                      IN  /\ bitout' = [bitout EXCEPT !.sink =
                                          ostream_write(@, popped_line(left)
                                                             \o popped_line(right)
                                                             \o arrow_line(parent, left, 48)
                                                             \o arrow_line(parent, right, 49))]
                          /\ heap' = (heap \ {left, right}) \cup {parent}
                   /\ next_node_id' = next_node_id + 1
                   /\ UNCHANGED pc
  /\ UNCHANGED <<mode, symbol_size, input, symbols, tree, enc_marks, bitin, exit_code>>
  /\ UNCHANGED <<dec_vars, log_vars>>

\* main ends without a return statement
ProtoReturn ==
  /\ pc = "proto_return"
  /\ Returns(ExitSuccess)
  /\ pc' = "proto_done"
  /\ UNCHANGED <<mode, symbol_size, input, bitout, bitin>>
  /\ UNCHANGED <<enc_vars, dec_vars, log_vars>>

Next ==
  \/ Main
  \/ EncOpen
  \/ EncReadSymbols
  \/ EncReadSymbolsForever
  \/ EncReadSymbolsUndefined
  \/ BuildTreeLeaves
  \/ BuildTreeCombine
  \/ BuildTreeReturn
  \/ BuildCodeWords
  \/ EncWriteHeader
  \/ EncWriteTree
  \/ EncWriteBody
  \/ EncReturn
  \/ DecOpen
  \/ DecOpenForged
  \/ DecReadMagic
  \/ DecReadHeader
  \/ DecReadTree
  \/ DecDropTree
  \/ DecSymbol
  \/ DecCopyExtra
  \/ TreeWrite
  \/ TreeReadBack
  \/ TreeDrop
  \/ WordsWrite
  \/ GraphWrite
  \/ HeaderWrite
  \/ HeaderRead
  \/ BitsPutStep
  \/ BitsRelease
  \/ BitsGetStep
  \/ ReaderGetStep
  \/ ReaderSetStatus
  \/ WriterPut
  \/ WriterFlush
  \/ WriterSetBad
  \/ BitsMain
  \/ EchoStep
  \/ EchoReturn
  \/ ReadBitsStep
  \/ ProtoMain
  \/ ProtoFillLeaves
  \/ ProtoBuildTree
  \/ ProtoReturn

Spec == Init /\ [][Next]_vars

(***************************************************************************)
(* Properties                                                              *)
(***************************************************************************)
\* bit k (from 0) of the bit stream that follows the magic in a file
StreamBit(file, k) == TestMask(file[Len(Magic) + (k \div 8) + 1], 2 ^ (k % 8))
\* number of bytes n bits take
BytesFor(n) == (n + 7) \div 8
\* main_encode has returned
\* a run of main_encode on a file that can be read twice, with a symbol size
\* of 1 to 8 bytes, followed by main_decode
CodecRun == mode = "codec" /\ symbol_size \in 1..MaxSymbolSize
Encoded_done == CodecRun /\ pc \notin {"main", "enc_open", "enc_failed", "enc_start",
                  "enc_read_forever", "enc_crashed", "enc_leaves", "enc_combine",
                  "enc_code_words", "enc_header", "enc_tree", "enc_body", "enc_release"}
\* main_decode has ended, by a return or by the death of the process
Decoded_done == CodecRun /\ pc \in {"dec_done", "dec_crashed"}
\* read_tree has been called
TreeWasRead == CodecRun /\ pc \in {"dec_drop_tree", "dec_body", "dec_done", "dec_crashed"}
                 /\ dec_marks.tree > 0

\* C1: decoding the encoder's output returns 0 and writes exactly the input,
\* for every input and every symbol size.
C1_RoundTrip ==
  (Decoded_done /\ variant.kind = "intact")
    => (pc = "dec_done" /\ Returned(ExitSuccess) /\ dec_out = input)

\* C2: when total_size > 0 the encoder writes a serialized tree right after
\* the 67 header bits, and the decoder's read_tree consumes exactly those
\* tree bits, none of the body or of the extra tail.
C2_TreePresence ==
  /\ (Encoded_done /\ symbols.total_size > 0) => enc_marks.tree > enc_marks.header
  /\ (TreeWasRead /\ variant.kind = "intact") => dec_marks.tree <= enc_marks.tree

\* C3: the empty input encodes to the magic followed by the 67 header bits
\* padded to 9 bytes, with no tree bit and no body bit, and that file decodes
\* to nothing with exit code 0.
C3_EmptyInput ==
  (CodecRun /\ input = <<>>) =>
    /\ Encoded_done =>
         /\ Encoded = Magic \o <<0, 0, 0, 0, 0, 0, 0, 0, symbol_size - 1>>
         /\ enc_marks = [header |-> TotalSizeBits + SymbolSizeBits,
                         tree |-> TotalSizeBits + SymbolSizeBits,
                         body |-> TotalSizeBits + SymbolSizeBits]
    /\ dec_out = <<>>
    /\ (Decoded_done /\ variant.kind = "intact")
         => (pc = "dec_done" /\ Returned(ExitSuccess))

C3_Witness ==
  /\ CodecRun /\ input = <<>> /\ symbol_size = 3
  /\ pc = "dec_done" /\ variant.kind = "intact" /\ Returned(ExitSuccess)
  /\ Len(Encoded) = 17

\* the input is n >= 1 full symbols, all equal, and maybe a tail
SingleSymbol ==
  CodecRun /\ symbol_size > 0 /\ Len(input) >= symbol_size
    /\ \A i \in 1..(Len(input) - (Len(input) % symbol_size)) :
         input[i] = input[((i - 1) % symbol_size) + 1]
TheSymbol == Take(input, symbol_size)
FullSymbols == Len(input) \div symbol_size

\* C4: with a single-symbol alphabet of n symbols the tree is a lone leaf,
\* the code word is [false], the body is n zero bits, the decoder reads one
\* bit per symbol it emits, and the input comes back.
C4_SingleSymbol ==
  SingleSymbol =>
    /\ pc \in {"enc_code_words", "enc_header", "enc_tree", "enc_body", "enc_release"}
         => tree = Leaf(TheSymbol, FullSymbols)
    /\ pc \in {"enc_header", "enc_tree", "enc_body", "enc_release"}
         => /\ DOMAIN symbols.info = {TheSymbol}
            /\ symbols.info[TheSymbol].code_word = <<FALSE>>
    /\ Encoded_done =>
         /\ enc_marks.body = enc_marks.tree + FullSymbols + 8 * (Len(input) % symbol_size)
         /\ \A k \in enc_marks.tree..(enc_marks.tree + FullSymbols - 1) :
              ~StreamBit(Encoded, k)
    /\ (variant.kind = "intact" /\ pc = "dec_body")
         => /\ dec_tree.root # 0
            /\ dec_tree.nodes[dec_tree.root].type = "leaf"
            /\ bytes_written <= expanded_size
            /\ DecBits(bitin) = dec_marks.tree + (bytes_written \div symbol_size)
            /\ dec_out = Take(input, bytes_written)
    /\ (variant.kind = "intact" /\ Decoded_done)
         => (pc = "dec_done" /\ Returned(ExitSuccess) /\ dec_out = input)

C4_Witness ==
  /\ SingleSymbol /\ FullSymbols >= 2 /\ Len(input) % symbol_size > 0
  /\ variant.kind = "intact" /\ pc = "dec_done" /\ dec_out = input
  /\ bytes_written = FullSymbols * symbol_size

\* C5: the file starts with the magic, then come the 64 bits of the input
\* length and the 3 bits of symbol_size - 1, both least-significant bit
\* first, and the decoder's header parser recovers both values.
C5_HeaderLayout ==
  /\ Encoded_done =>
       /\ Take(Encoded, Len(Magic)) = <<104, 117, 102, 102, 101, 114, 49, 0>>
       /\ \A i \in 0..(TotalSizeBits - 1) :
            StreamBit(Encoded, i) = (ShiftRight(Len(input), i) % 2 = 1)
       /\ \A i \in 0..(SymbolSizeBits - 1) :
            StreamBit(Encoded, TotalSizeBits + i)
              = (ShiftRight(symbol_size - 1, i) % 2 = 1)
  /\ (CodecRun /\ variant.kind = "intact" /\ pc \notin {"enc_done", "dec_magic", "dec_header"}
        /\ Encoded_done)
       => /\ total_size = Len(input)
          /\ dec_symbol_size = symbol_size
          /\ dec_marks.header = TotalSizeBits + SymbolSizeBits

C5_Witness ==
  /\ CodecRun /\ variant.kind = "intact" /\ pc = "dec_tree"
  /\ Len(input) = 3 /\ total_size = 3 /\ symbol_size = 6 /\ dec_symbol_size = 6

\* C6: a file whose first 8 bytes differ from the magic makes main_decode
\* return 2 without a byte of output.
C6_BadMagic ==
  (CodecRun /\ variant.kind = "bad_magic") =>
    /\ dec_out = <<>>
    /\ pc \in {"dec_magic", "dec_done"}
    /\ pc = "dec_done" => Returned(ExitBadMagic)

C6_Witness ==
  /\ CodecRun /\ variant.kind = "bad_magic" /\ variant.at = 7
  /\ dec_in[7] = 50 /\ Len(input) > 0
  /\ pc = "dec_done" /\ Returned(ExitBadMagic)

\* C7: a failed read_tree ends main_decode with a non-zero exit code of its
\* own: none of the codes of a short or bad magic, of a truncated header or
\* of a truncated body.
C7_MalformedTreeCode ==
  (CodecRun /\ pc = "dec_done" /\ dec_marks.tree > 0 /\ dec_tree.root = 0)
    => \A code \in {ExitSuccess, ExitShortMagic, ExitBadMagic, ExitTruncatedTotalSize,
                       ExitTruncatedSymbolSize, ExitTruncatedBody} : ~Returned(code)

\* C8: main_decode on a proper prefix of the encoding of a non-empty input
\* returns a non-zero exit code.
C8_TruncationRejected ==
  (CodecRun /\ variant.kind = "prefix" /\ Len(input) > 0 /\ pc = "dec_done")
    => ~Returned(ExitSuccess)

\* the bits put, followed by the zero bits that fill the last byte
PaddedLog == put_log \o [i \in 1..(8 * BytesFor(Len(put_log)) - Len(put_log)) |-> FALSE]

\* C9: the reader delivers the bits of the writer in order, bit i of each
\* byte being the i-th bit written into it, then the zero pad bits of the
\* last byte, then end of input; echo_bits reproduces its input.
C9_ReaderAfterWriter ==
  /\ (mode = "bits" /\ pc \in {"bits_get", "bits_done"} /\ ~bitout.bad_bit) =>
       /\ get_log = Take(PaddedLog, Len(get_log))
       /\ \A k \in 1..Len(bitout.sink.bytes) : \A i \in 0..7 :
            TestMask(bitout.sink.bytes[k], 2 ^ i) = PaddedLog[8 * (k - 1) + i + 1]
       /\ pc = "bits_done" =>
            /\ get_log = PaddedLog
            /\ bitin.eof_bit /\ bitin.fail_bit /\ ~bitin.bad_bit
  /\ (mode = "echo" /\ pc = "echo_done") =>
       (bitout.sink.bytes = input /\ Returned(0))

C9_Witness ==
  /\ mode = "bits" /\ pc = "bits_done" /\ ~bitout.bad_bit
  /\ Len(put_log) = 10 /\ put_log[1] /\ ~put_log[2] /\ put_log[10]
  /\ Len(get_log) = 16

\* C10: after n successful puts and the release of the writer the sink holds
\* ceil(n/8) bytes, the last one holding the final n mod 8 bits in its low
\* positions under zero bits; so does the file main_encode writes.
C10_WriterRelease ==
  /\ (mode = "bits" /\ pc \in {"bits_get", "bits_done"} /\ ~bitout.bad_bit) =>
       LET n == Len(put_log)
           bytes == bitout.sink.bytes
       IN  /\ Len(bytes) = BytesFor(n)
           /\ n % 8 # 0 => bytes[Len(bytes)] = to_ullong(SubSeq(put_log, n - (n % 8) + 1, n))
           /\ (n > 0 /\ n % 8 = 0) => bytes[Len(bytes)] = to_ullong(SubSeq(put_log, n - 7, n))
  /\ Encoded_done =>
       /\ Len(Encoded) = Len(Magic) + BytesFor(enc_marks.body)
       /\ \A k \in enc_marks.body..(8 * BytesFor(enc_marks.body) - 1) : ~StreamBit(Encoded, k)

C10_Witness ==
  /\ mode = "bits" /\ pc = "bits_get" /\ ~bitout.bad_bit
  /\ Len(put_log) = 10 /\ put_log[8] /\ put_log[9] /\ put_log[10]
  /\ bitout.sink.bytes[2] = 3

\* C11: once a get has set fail or bad, every later get pulls no byte from the
\* source and leaves the current byte, the mask and the caller's bit as they
\* were, and the stream still reports failure.
C11_ReaderFailureInert ==
  [][(mode = "reader" /\ ~Good(bitin)) =>
       /\ bitin'.src.pos = bitin.src.pos
       /\ bitin'.current = bitin.current
       /\ bitin'.mask = bitin.mask
       /\ CallerBit' = CallerBit
       /\ ~Good(bitin')]_vars

(***************************************************************************)
(* Properties of the tree and of the code table                            *)
(***************************************************************************)
\* build_tree has returned
TreeBuilt == mode \in {"codec", "tree", "words", "graph"}
               /\ pc \notin {"main", "enc_open", "enc_failed", "enc_start", "enc_read_forever",
                             "enc_crashed", "enc_leaves", "enc_combine"}
\* build_code_words has returned
CodeWordsBuilt == mode \in {"codec", "words"} /\ TreeBuilt /\ pc # "enc_code_words"
\* the symbols of the frequency map
Alphabet == DOMAIN symbols.info

RECURSIVE Sum(_, _)
Sum(f, S) == IF S = {} THEN 0 ELSE LET x == CHOOSE y \in S : TRUE IN f[x] + Sum(f, S \ {x})

\* the sum over the symbols of frequency times code-word length
CodeCost ==
  Sum([sym \in Alphabet |-> symbols.info[sym].frequency * Len(symbols.info[sym].code_word)],
      Alphabet)

\* the code-word lengths of the prefix codes for the alphabet, by Kraft's
\* inequality: lengths l >= 1 with sum of 2^(-l) at most 1.  A length above
\* the size of the alphabet is never needed by a cheapest code.
PrefixCodeLengths ==
  LET k == Cardinality(Alphabet)
  IN  {l \in [Alphabet -> 1..k] : Sum([sym \in Alphabet |-> 2 ^ (k - l[sym])], Alphabet) <= 2 ^ k}

LengthsCost(l) == Sum([sym \in Alphabet |-> symbols.info[sym].frequency * l[sym]], Alphabet)

\* every symbol has the same frequency and there are 2^k of them
EqualFrequencies(k) ==
  /\ Cardinality(Alphabet) = 2 ^ k
  /\ \A a, b \in Alphabet : symbols.info[a].frequency = symbols.info[b].frequency

\* C12: with at least two symbols, whatever nodes of equal weight the heap
\* hands out first, no prefix code for the alphabet has a smaller sum of
\* frequency times code-word length than the code words assigned; 2^k symbols
\* of equal frequency all get length k.
C12_Optimality ==
  (CodeWordsBuilt /\ Cardinality(Alphabet) >= 2) =>
    /\ \A l \in PrefixCodeLengths : CodeCost <= LengthsCost(l)
    /\ \A k \in 1..Cardinality(Alphabet) :
         EqualFrequencies(k) => \A sym \in Alphabet : Len(symbols.info[sym].code_word) = k

C12_Witness ==
  /\ mode = "words" /\ pc = "words_write"
  /\ Cardinality(Alphabet) = 4 /\ EqualFrequencies(2)
  /\ \A sym \in Alphabet : Len(symbols.info[sym].code_word) = 2

RECURSIVE WellFormed(_)
WellFormed(node) ==
  node.type = "leaf" \/
    /\ node.type = "internal"
    /\ node.left.type # "null" /\ node.right.type # "null"
    /\ node.weight = node.left.weight + node.right.weight
    /\ WellFormed(node.left) /\ WellFormed(node.right)

\* the leaves of a tree, left to right
RECURSIVE LeavesOf(_)
LeavesOf(node) ==
  CASE node.type = "null" -> <<>>
    [] node.type = "leaf" -> <<node>>
    [] OTHER -> LeavesOf(node.left) \o LeavesOf(node.right)

\* C13: build_tree returns null iff the frequency map is empty and a lone
\* leaf iff it has one symbol; otherwise every internal node has two non-null
\* children and the sum of their weights as its weight; the leaves carry the
\* symbols of the map, each once, with its frequency as weight.
C13_TreeInvariant ==
  TreeBuilt =>
    /\ tree.type = "null" <=> Alphabet = {}
    /\ tree.type = "leaf" <=> Cardinality(Alphabet) = 1
    /\ tree.type = "internal" => WellFormed(tree)
    /\ LET leaves == LeavesOf(tree)
       IN  /\ Len(leaves) = Cardinality(Alphabet)
           /\ {leaves[i].leaf : i \in 1..Len(leaves)} = Alphabet
           /\ \A i \in 1..Len(leaves) :
                leaves[i].weight = symbols.info[leaves[i].leaf].frequency

C13_Witness ==
  /\ mode = "tree" /\ pc = "tree_write"
  /\ Cardinality(Alphabet) = 4
  /\ tree.type = "internal" /\ tree.weight = 9
  /\ tree.left.type = "leaf" /\ tree.right.type = "internal"
  /\ tree.right.left.type = "internal"

\* the root-to-leaf paths of a tree: false for left, true for right
RECURSIVE Paths(_, _)
Paths(node, prefix) ==
  CASE node.type = "null" -> {}
    [] node.type = "leaf" -> {<<node.leaf, prefix>>}
    [] OTHER -> Paths(node.left, Append(prefix, FALSE))
                  \cup Paths(node.right, Append(prefix, TRUE))

IsPrefix(a, b) == Len(a) <= Len(b) /\ Take(b, Len(a)) = a

PrefixFree ==
  \A a, b \in Alphabet :
    a # b => ~IsPrefix(symbols.info[a].code_word, symbols.info[b].code_word)

\* C14 as stated: after build_code_words every symbol of the map has a code
\* word of length >= 1 equal to its root-to-leaf path, and with two symbols or
\* more no code word is a prefix of another symbol's.
C14_CodeTableAsStated ==
  CodeWordsBuilt =>
    /\ \A sym \in Alphabet :
         /\ Len(symbols.info[sym].code_word) >= 1
         /\ <<sym, symbols.info[sym].code_word>> \in Paths(tree, <<>>)
    /\ Cardinality(Alphabet) >= 2 => PrefixFree

\* C14, amended: every symbol of the map has a code word of length >= 1; with
\* two symbols or more it is the symbol's root-to-leaf path and no code word
\* is a prefix of another symbol's; the lone symbol of a one-symbol alphabet
\* has the code word [false], its path being empty.
C14_CodeTable ==
  CodeWordsBuilt =>
    /\ \A sym \in Alphabet : Len(symbols.info[sym].code_word) >= 1
    /\ Cardinality(Alphabet) >= 2 =>
         /\ \A sym \in Alphabet :
              <<sym, symbols.info[sym].code_word>> \in Paths(tree, <<>>)
         /\ PrefixFree
    /\ Cardinality(Alphabet) = 1 =>
         \A sym \in Alphabet :
           /\ symbols.info[sym].code_word = <<FALSE>>
           /\ Paths(tree, <<>>) = {<<sym, <<>>>>}

C14_Witness ==
  /\ mode = "words" /\ pc = "words_write"
  /\ Cardinality(Alphabet) = 3
  /\ symbols.info[<<3>>].code_word = <<FALSE>>
  /\ symbols.info[<<1>>].code_word = <<TRUE, FALSE>>
  /\ symbols.info[<<2>>].code_word = <<TRUE, TRUE>>

(***************************************************************************)
(* Properties of the serialized tree                                       *)
(***************************************************************************)
\* the bits of a symbol as the file holds them: byte after byte, each from
\* its least significant bit
RECURSIVE SymbolBits(_)
SymbolBits(symbol) ==
  IF symbol = <<>> THEN <<>>
  ELSE [i \in 1..8 |-> (Head(symbol) \div (2 ^ (i - 1))) % 2 = 1] \o SymbolBits(Tail(symbol))

\* the pre-order encoding of a tree
RECURSIVE PreOrder(_)
PreOrder(node) ==
  CASE node.type = "null" -> <<>>
    [] node.type = "leaf" -> <<TRUE>> \o SymbolBits(node.leaf)
    [] OTHER -> <<FALSE>> \o PreOrder(node.left) \o PreOrder(node.right)

\* the shape and the leaf symbols of the encoder's tree
RECURSIVE ShapeOf(_)
ShapeOf(node) ==
  CASE node.type = "null" -> <<"null">>
    [] node.type = "leaf" -> <<"leaf", node.leaf>>
    [] OTHER -> <<"internal", ShapeOf(node.left), ShapeOf(node.right)>>

\* the shape and the leaf symbols of the tree in the decoder's node store
RECURSIVE StoredShapeOf(_, _)
StoredShapeOf(nodes, p) ==
  CASE p = 0 -> <<"null">>
    [] nodes[p].type = "leaf" -> <<"leaf", nodes[p].leaf>>
    [] OTHER -> <<"internal", StoredShapeOf(nodes, nodes[p].left),
                  StoredShapeOf(nodes, nodes[p].right)>>

\* bit k (from 0) of a file
FileBit(file, k) == TestMask(file[(k \div 8) + 1], 2 ^ (k % 8))

\* main_write_tree has returned
TreeWritten == mode = "tree" /\ pc \in {"tree_read", "tree_drop", "tree_done", "dec_crashed"}
\* read_tree has returned to main_read_and_graph_tree
TreeReadBackDone == mode = "tree" /\ pc \in {"tree_drop", "tree_done", "dec_crashed"}

\* C15: the bits write_tree emits for a non-empty tree are its pre-order
\* encoding (0, left subtree, right subtree for an internal node; 1 and the
\* bytes of the symbol for a leaf), and read_tree on them returns a complete
\* tree of the same shape with the same symbols at the same leaves, having
\* consumed exactly the bits written.
C15_TreeRoundTrip ==
  /\ (TreeWritten /\ tree.type # "null") =>
       /\ enc_marks.tree = Len(PreOrder(tree))
       /\ \A k \in 1..enc_marks.tree : FileBit(bitout.sink.bytes, k - 1) = PreOrder(tree)[k]
  /\ (Encoded_done /\ tree.type # "null") =>
       /\ enc_marks.tree - enc_marks.header = Len(PreOrder(tree))
       /\ \A k \in 1..(enc_marks.tree - enc_marks.header) :
            StreamBit(Encoded, enc_marks.header + k - 1) = PreOrder(tree)[k]
  /\ ((TreeReadBackDone \/ TreeWasRead) /\ variant.kind = "intact" /\ tree.type # "null") =>
       /\ dec_tree.root # 0 /\ dec_tree.dropped = 0
       /\ \A p \in 1..Len(dec_tree.nodes) :
            dec_tree.nodes[p].type = "internal"
              => (dec_tree.nodes[p].left # 0 /\ dec_tree.nodes[p].right # 0)
       /\ StoredShapeOf(dec_tree.nodes, dec_tree.root) = ShapeOf(tree)
       /\ dec_marks.tree = enc_marks.tree

C15_Witness ==
  /\ mode = "tree" /\ pc = "tree_done" /\ variant.kind = "intact" /\ Returned(0)
  /\ Cardinality(Alphabet) = 4 /\ Len(dec_tree.nodes) = 7
  /\ tree.left.type = "leaf" /\ tree.right.type = "internal"
  /\ dec_marks.tree = 39 /\ enc_marks.tree = 39

\* C16: when read_tree gives up on a tree whose root is an internal node, the
\* release of the partly built tree destroys every node allocated so far
\* exactly once and reads through no null child pointer.
C16_PartialTreeDiscarded ==
  (dec_tree.dropped # 0 /\ pc \notin {"dec_drop_tree", "tree_drop"}) =>
    /\ ~dec_tree.released.null_deref
    /\ Len(dec_tree.released.deleted) = Len(dec_tree.nodes)
    /\ {dec_tree.released.deleted[i] : i \in 1..Len(dec_tree.released.deleted)}
         = 1..Len(dec_tree.nodes)

\* the i-th full chunk of symbol_size bytes of the input
Chunk(i) == SubSeq(input, (i - 1) * symbol_size + 1, i * symbol_size)
Chunks == 1..(Len(input) \div symbol_size)

\* C17: read_symbols ends with total_size = len(X), extra the last
\* len(X) mod s bytes of X (fewer than s, none when s divides len(X)), every
\* recorded frequency >= 1 and equal to the number of full chunks equal to
\* the symbol, and s times the sum of the frequencies plus len(extra) equal
\* to total_size.
C17_SymbolScanner ==
  (mode \in EncModes
     /\ pc \notin {"main", "enc_open", "enc_failed", "enc_start", "enc_read_forever",
                   "enc_crashed"}) =>
    /\ symbols.total_size = Len(input)
    /\ symbols.extra = SubSeq(input, Len(input) - (Len(input) % symbol_size) + 1, Len(input))
    /\ Len(symbols.extra) < symbol_size
    /\ Len(input) % symbol_size = 0 => symbols.extra = <<>>
    /\ Alphabet = {Chunk(i) : i \in Chunks}
    /\ \A sym \in Alphabet :
         /\ symbols.info[sym].frequency >= 1
         /\ symbols.info[sym].frequency = Cardinality({i \in Chunks : Chunk(i) = sym})
    /\ symbol_size * Sum([sym \in Alphabet |-> symbols.info[sym].frequency], Alphabet)
         + Len(symbols.extra) = symbols.total_size

C17_Witness ==
  /\ CodecRun /\ pc = "enc_leaves" /\ symbol_size = 2
  /\ Len(input) = 5 /\ Chunk(1) = <<97, 98>> /\ Chunk(2) = <<97, 98>>
  /\ symbols.info[<<97, 98>>].frequency = 2 /\ symbols.extra = <<97>>

\* C18: in a sequence of successful puts, the put that writes the 8th bit of
\* a byte sends the byte to the sink: right after the 8k-th put the sink
\* holds k bytes.
C18_FlushWhenFull ==
  (mode = "bits" /\ pc = "bits_put" /\ ~bitout.bad_bit) =>
    Len(bitout.sink.bytes) = Len(put_log) \div 8

\* read_tree returned null and main_decode is at its symbol loop
NullTreeRead == mode \in {"codec", "decode"} /\ pc = "dec_body" /\ dec_tree.root = 0

\* C19: when read_tree returned null the reader has failed and stays failed:
\* the symbol loop is not entered, or it returns 6 at its first bit read,
\* before the node is looked at; main_decode never reads through the null
\* tree.
C19_NoNullTreeRead ==
  [][NullTreeRead =>
       /\ ~Good(bitin)
       /\ pc' = "dec_done"
       /\ dec_out' = dec_out
       /\ bytes_written < expanded_size => exit_code' = Append(exit_code, ExitTruncatedBody)
       /\ ~(bytes_written < expanded_size) => exit_code' = Append(exit_code, ExitSuccess)]_vars

C19_Witness ==
  /\ mode = "decode" /\ pc = "dec_done" /\ Returned(ExitTruncatedBody)
  /\ dec_tree.root = 0 /\ dec_tree.dropped = 0 /\ dec_marks.tree > dec_marks.header
  /\ expanded_size > 0 /\ dec_out = <<>>

====
